---- MODULE Spec2Model ----
(***************************************************************************)
(* Pixel bot: points ledger (PointsService), cooldown gate                 *)
(* (CooldownService), effect queue, XP levels and rewards, redeems, admin  *)
(* batches, and the event handlers that use them.                          *)
(*                                                                         *)
(* The points tables are modelled as committed database state: `points` is *)
(* the points table (user_id -> balance), `txs` the transactions table in  *)
(* insertion (AUTOINCREMENT id) order.                                     *)
(***************************************************************************)
EXTENDS Integers, Sequences, FiniteSets, TLC

\* ------------------------------------------------------------------ bounds
\* Longest transactions table explored.
MaxTx == 4
\* Last instant of the clock, in ticks.
MaxTime == 3
\* Clock ticks per second: time.time() has sub-second resolution.
TicksPerSec == 2
\* Most ticks that pass between a handler's cooldown check and its set.
MaxLag == 1
\* Most rows of the queue_items table explored.
MaxItems == 3
\* Last instant of datetime.utcnow(), in ticks.
MaxClock == 3
\* Largest total_xp explored.
MaxXp == 2800
\* Deepest negative total_xp explored (a correction may overshoot zero).
MaxXpDebt == 700
\* Most pending tts items explored.
MaxPending == 6
\* Most timers of one sort that the browser holds for the extension.
MaxTimers == 2
\* Most messages a content script keeps track of.
MaxMsgs == 2

\* ------------------------------------------------------- program constants
POINTS_START_AMOUNT == 100
POINTS_CHAT_AMOUNT == 1
POINTS_FOLLOW_AMOUNT == 50
POINTS_CHAT_COOLDOWN_SECONDS == 60
\* TTS_PRE_DELAY_MS, in ticks of utcnow.
TTS_PRE_DELAY == 1
\* timedelta(minutes=5) of the stuck-item reset, in ticks of utcnow.
STUCK_AFTER == 2
\* TTS_QUEUE_MAX=5
TTS_QUEUE_MAX == 5
\* A timestamp column that is NULL.
NULL == -1
\* backoff = 1.0 and min(30.0, ...), in seconds
BACKOFF_START == 1
BACKOFF_MAX == 30
\* setTimeout(connect, 5000) and setInterval(..., 30000), in seconds
RECONNECT_DELAY == 5
PING_EVERY == 30
XP_BASE == 100
\* XP_EXPONENT=1.8, in tenths.
XP_EXPONENT == 18
XP_MAX_LEVEL == 9999

\* ------------------------------------------------------------------ inputs
\* User names seen in events; a user's id is identified with its name.
Subjects == {"alice", "bob"}
\* Amounts granted by event handlers.
GrantAmounts == {POINTS_CHAT_AMOUNT, POINTS_FOLLOW_AMOUNT}
\* Redeem costs handed to spend().
SpendAmounts == {50, 1000}
\* Deltas handed to adjust() by the admin paths.
AdjustDeltas == {-150, 50}
\* Cooldown keys.
Keys == {"points:chat", "redeem:tts"}
\* Cooldown durations, in seconds.
Durations == {1, 2}

VARIABLES
    points,      \* points table: user_id -> balance (rows exist for created users)
    txs,         \* transactions table, in id order
    overridden,  \* users to whom adjust(allow_negative_balance=True) was applied
    result,      \* the most recent PointsService call and its outcome
    sess,        \* per handler: its database session (position and pending writes)
    cooldowns,   \* CooldownService._cooldowns: (user_id, key) -> expires_at
    now,         \* time.time(), in ticks
    verdict,     \* the most recent cooldown check and what it answered
    lastAdmit,   \* per (user_id, key): when and for how long it was last set
    gate,        \* per handler: its position in on_chat
    queue_items, \* queue_items table: id -> row
    workers,     \* per queue worker: its position in process_clip_queue
    utcnow,      \* datetime.utcnow(), in ticks
    polled,      \* the most recent next_plain() call and what it returned
    delivered,   \* per kind: id of the item whose effect was started last
    xp,          \* xp table: user_id -> total_xp and level
    levelup,     \* the level-up loop of the most recent XP award
    curve,       \* a leveling curve, a total_xp and what the curve functions give
    batch,       \* the admin batch request in progress or last made, and its result
    redeemed,    \* the most recent RedeemsService.redeem call and what it returned
    joystick,    \* the platform client's reconnect loop: position and backoff
    ext,         \* background.js: ws, pingInterval, the timers and the last event
    tabs,        \* the browser's tabs: tab id -> what is open in it
    page         \* content.js in a joystick.tv tab: the button and the messages received

ledgerVars == <<points, txs, overridden, result, sess>>
gateVars == <<cooldowns, now, verdict, lastAdmit, gate>>
queueVars == <<queue_items, workers, utcnow, polled, delivered>>
levelVars == <<xp, levelup, curve>>
clientVars == <<joystick, ext, tabs, page>>
requestVars == <<batch, redeemed, clientVars>>
restVars == <<queueVars, levelVars, requestVars>>
botVars == <<ledgerVars, gateVars, queueVars, levelVars, batch, redeemed>>
vars == <<points, txs, overridden, result, sess,
          cooldowns, now, verdict, lastAdmit, gate,
          queue_items, workers, utcnow, polled, delivered,
          xp, levelup, curve, batch, redeemed,
          joystick, ext, tabs, page>>

\* ------------------------------------------------------------------ ledger
\* A row of the transactions table.
Transaction(user_id, type, delta, reason) ==
    [user_id |-> user_id, type |-> type, delta |-> delta, reason |-> reason]

\* Outcome of a PointsService call: the tables it leaves committed, the error
\* raised ("" when none) and the value returned.
Outcome(err, pts, log, ret) ==
    [err |-> err, points |-> pts, txs |-> log, ret |-> ret]

\* PointsService.get_balance
get_balance(user_id) ==
    IF user_id \in DOMAIN points THEN points[user_id] ELSE 0

\* Mutant of ensure_user: the starting balance is set without its transaction.
ensure_user_NoStartTx(name) ==
    IF name \in DOMAIN points
    THEN Outcome("", points, txs, 0)
    ELSE Outcome("", [u \in DOMAIN points \cup {name} |->
                         IF u = name THEN POINTS_START_AMOUNT ELSE points[u]],
                 txs, 0)

\* PointsService.ensure_user: creates the user and its points row on first
\* sight and grants the starting balance, all in one commit.
ensure_user(name) ==
    IF name \in DOMAIN points
    THEN Outcome("", points, txs, 0)
    ELSE LET created == [u \in DOMAIN points \cup {name} |->
                            IF u = name THEN 0 ELSE points[u]]
         IN  IF POINTS_START_AMOUNT > 0
             THEN Outcome("",
                          [created EXCEPT ![name] = POINTS_START_AMOUNT],
                          Append(txs, Transaction(name, "grant",
                                                  POINTS_START_AMOUNT, "start")),
                          0)
             ELSE Outcome("", created, txs, 0)

\* Mutant of spend: the balance check is dropped.
spend_NoCheck(user_id, amount, reason) ==
    IF user_id \notin DOMAIN points
    THEN Outcome("Insufficient points", points, txs, 0)
    ELSE Outcome("",
                 [points EXCEPT ![user_id] = @ - amount],
                 Append(txs, Transaction(user_id, "spend", -amount, reason)),
                 points[user_id] - amount)

\* Mutant of spend: the failing call still records its transaction.
spend_LogsOnFailure(user_id, amount, reason) ==
    IF user_id \notin DOMAIN points \/ points[user_id] < amount
    THEN Outcome("Insufficient points", points,
                 Append(txs, Transaction(user_id, "spend", -amount, reason)), 0)
    ELSE Outcome("",
                 [points EXCEPT ![user_id] = @ - amount],
                 Append(txs, Transaction(user_id, "spend", -amount, reason)),
                 points[user_id] - amount)

\* PointsService.spend
spend(user_id, amount, reason) ==
    IF user_id \notin DOMAIN points \/ points[user_id] < amount
    THEN Outcome("Insufficient points", points, txs, 0)
    ELSE Outcome("",
                 [points EXCEPT ![user_id] = @ - amount],
                 Append(txs, Transaction(user_id, "spend", -amount, reason)),
                 points[user_id] - amount)

\* Mutant of grant: the transaction records no delta.
grant_ZeroDelta(user_id, amount, reason) ==
    Outcome("",
            [points EXCEPT ![user_id] = @ + amount],
            Append(txs, Transaction(user_id, "grant", 0, reason)),
            points[user_id] + amount)

\* PointsService.grant
grant(user_id, amount, reason) ==
    Outcome("",
            [points EXCEPT ![user_id] = @ + amount],
            Append(txs, Transaction(user_id, "grant", amount, reason)),
            points[user_id] + amount)

\* Mutant of adjust: allow_negative_balance is ignored.
adjust_IgnoresFlag(user_id, delta, reason, allow_negative_balance) ==
    Outcome("",
            [points EXCEPT ![user_id] = @ + delta],
            Append(txs, Transaction(user_id, "adjust", delta, reason)),
            points[user_id] + delta)

\* PointsService.adjust
adjust(user_id, delta, reason, allow_negative_balance) ==
    IF ~allow_negative_balance /\ points[user_id] + delta < 0
    THEN Outcome("Insufficient points", points, txs, 0)
    ELSE Outcome("",
                 [points EXCEPT ![user_id] = @ + delta],
                 Append(txs, Transaction(user_id, "adjust", delta, reason)),
                 points[user_id] + delta)

\* The record kept of a call: what was called, with what, and what came back.
Call(op, user_id, amount, allow, out) ==
    [op |-> op, user_id |-> user_id, amount |-> amount, allow |-> allow,
     err |-> out.err, ret |-> out.ret]

\* Commits the outcome of a call (bounded by the longest table explored).
Commit(out) ==
    /\ Len(out.txs) <= MaxTx
    /\ points' = out.points
    /\ txs' = out.txs

\* Sum of the deltas of a user's rows of a transactions table.
RECURSIVE SumDeltas(_, _)
SumDeltas(log, user_id) ==
    IF log = << >> THEN 0
    ELSE (IF Head(log).user_id = user_id THEN Head(log).delta ELSE 0)
         + SumDeltas(Tail(log), user_id)

NoCall ==
    [op |-> "none", user_id |-> "", amount |-> 0, allow |-> FALSE,
     err |-> "", ret |-> 0]

\* ------------------------------------------------------- CooldownService
Entries == Subjects \X Keys

\* Handlers that may run at the same time, each with its own session.
Handlers == {"h1", "h2"}

\* int(x) of a time difference given in ticks: whole seconds, truncated
\* toward zero.
int_seconds(ticks) ==
    IF ticks >= 0 THEN ticks \div TicksPerSec ELSE -((-ticks) \div TicksPerSec)

\* Mutant of is_active: an entry still counts as active at its expiry
\* instant (now > expires_at instead of now >= expires_at).
is_active_LateExpiry(cd, t, user_id, key) ==
    LET entry == <<user_id, key>> IN
    IF entry \notin DOMAIN cd
    THEN [active |-> FALSE, remaining |-> 0, cooldowns |-> cd]
    ELSE IF t > cd[entry]
         THEN [active |-> FALSE, remaining |-> 0,
               cooldowns |-> [e \in DOMAIN cd \ {entry} |-> cd[e]]]
         ELSE [active |-> TRUE, remaining |-> int_seconds(cd[entry] - t),
               cooldowns |-> cd]

\* Mutant of is_active: a rejected attempt pushes the expiry back by a second.
is_active_PenaltyOnReject(cd, t, user_id, key) ==
    LET entry == <<user_id, key>> IN
    IF entry \notin DOMAIN cd
    THEN [active |-> FALSE, remaining |-> 0, cooldowns |-> cd]
    ELSE IF t >= cd[entry]
         THEN [active |-> FALSE, remaining |-> 0,
               cooldowns |-> [e \in DOMAIN cd \ {entry} |-> cd[e]]]
         ELSE [active |-> TRUE, remaining |-> int_seconds(cd[entry] - t),
               cooldowns |-> [cd EXCEPT ![entry] = @ + TicksPerSec]]

\* CooldownService.is_active at time t on the dictionary cd: the answer and
\* the dictionary it leaves (an expired entry is deleted by the lookup).
is_active(cd, t, user_id, key) ==
    LET entry == <<user_id, key>> IN
    IF entry \notin DOMAIN cd
    THEN [active |-> FALSE, remaining |-> 0, cooldowns |-> cd]
    ELSE IF t >= cd[entry]
         THEN [active |-> FALSE, remaining |-> 0,
               cooldowns |-> [e \in DOMAIN cd \ {entry} |-> cd[e]]]
         ELSE [active |-> TRUE, remaining |-> int_seconds(cd[entry] - t),
               cooldowns |-> cd]

\* Mutant of set: the expiry is stored as the bare duration, without the
\* current time.
set_ForgetsNow(cd, t, user_id, key, duration_seconds) ==
    [e \in DOMAIN cd \cup {<<user_id, key>>} |->
        IF e = <<user_id, key>> THEN duration_seconds * TicksPerSec ELSE cd[e]]

\* Mutant of set: the cooldown is stored for the key, whoever the user is.
set_ForEveryUser(cd, t, user_id, key, duration_seconds) ==
    [e \in DOMAIN cd \cup {<<u, key>> : u \in Subjects} |->
        IF e[2] = key THEN t + duration_seconds * TicksPerSec ELSE cd[e]]

\* CooldownService.set at time t on the dictionary cd.
set(cd, t, user_id, key, duration_seconds) ==
    [e \in DOMAIN cd \cup {<<user_id, key>>} |->
        IF e = <<user_id, key>> THEN t + duration_seconds * TicksPerSec
        ELSE cd[e]]

NoVerdict ==
    [op |-> "none", entry |-> <<"", "">>, at |-> 0, admitted |-> FALSE,
     remaining |-> 0]

\* The answer a handler got from its cooldown check at time t.
Verdict(user_id, key, t, chk) ==
    [op |-> "admit", entry |-> <<user_id, key>>, at |-> t,
     admitted |-> ~chk.active, remaining |-> chk.remaining]

NeverSet == [t |-> -1, d |-> 0]

IdleGate == [pc |-> "idle", user_id |-> ""]

InitGateVars ==
    /\ cooldowns = << >>
    /\ now = 0
    /\ verdict = NoVerdict
    /\ lastAdmit = [e \in Entries |-> NeverSet]
    /\ gate = [h \in Handlers |-> IdleGate]

\* ------------------------------------------------------------ queue_items
\* Queue kinds: "clip" is drained by process_clip_queue, "tts" by next_plain.
QueueKinds == {"clip", "tts"}

\* Tasks that may run process_clip_queue.
QueueWorkers == {"w1", "w2"}

\* payload_json of the items enqueued: who asked, and for a tts item
\* whether the name is spoken before the message.
Payloads == [clip |-> {[user |-> "alice", prefix |-> FALSE]},
             tts |-> {[user |-> "alice", prefix |-> TRUE],
                      [user |-> "bob", prefix |-> FALSE]}]

\* A new row of queue_items. These are not columns: `claimed_at` keeps the
\* time at which the row became running, `cues` counts how often the
\* pre-sound was played for the row, `spoken` how often its text was returned
\* to the TTS engine, and `interrupted` tells that the process was shut down
\* while the row was running.
QueueItem(kind, payload) ==
    [kind |-> kind, status |-> "pending", payload |-> payload,
     started_at |-> NULL, finished_at |-> NULL,
     primed_at |-> NULL, claimed_at |-> NULL,
     cues |-> 0, spoken |-> 0, interrupted |-> FALSE]

\* id INTEGER PRIMARY KEY: one more than the largest id in the table.
NewId(q) ==
    IF DOMAIN q = {} THEN 1
    ELSE 1 + CHOOSE i \in DOMAIN q : \A j \in DOMAIN q : j <= i

\* select(QueueItem).where(kind, status).order_by(QueueItem.id.asc()).limit(1):
\* the id found, 0 when there is none.
FirstWith(q, kind, status) ==
    LET found == {i \in DOMAIN q : q[i].kind = kind /\ q[i].status = status}
    IN  IF found = {} THEN 0
        ELSE CHOOSE i \in found : \A j \in found : i <= j

\* A process_clip_queue task between two items.
IdleWorker == [pc |-> "idle", item |-> 0, status |-> "", error |-> ""]

NoPoll == [op |-> "none", item |-> 0, ret |-> << >>, at |-> 0]

InitQueueVars ==
    /\ queue_items = << >>
    /\ workers = [w \in QueueWorkers |-> IdleWorker]
    /\ utcnow = 0
    /\ polled = NoPoll
    /\ delivered = [k \in QueueKinds |-> 0]

\* ---------------------------------------------------------------- xp curve
\* int(100 * (L ** 1.8)) for L = 1..10, as CPython evaluates it.
POW_1_8_TIMES_100 ==
    <<100, 348, 722, 1212, 1811, 2515, 3320, 4222, 5219, 6309>>

\* The curves explored: base and exponent (in tenths).
Curves == {[base |-> XP_BASE, exponent |-> XP_EXPONENT],
           [base |-> 100, exponent |-> 10],
           [base |-> 50, exponent |-> 20]}

\* max_level values explored.
MaxLevels == {3, XP_MAX_LEVEL}

\* int(base * (L ** exponent))
level_xp(L, base, exponent) ==
    IF exponent = 10 THEN base * L
    ELSE IF exponent = 20 THEN base * L * L
    ELSE POW_1_8_TIMES_100[L]

\* xp_for_level: the loop over range(2, level + 1).
RECURSIVE xp_for_level(_, _, _)
xp_for_level(level, base, exponent) ==
    IF level <= 1 THEN 0
    ELSE xp_for_level(level - 1, base, exponent) + level_xp(level, base, exponent)

\* The while loop of level_from_xp, entered with `level` and `cumulative`.
RECURSIVE level_loop(_, _, _, _, _, _)
level_loop(level, cumulative, total_xp, base, exponent, max_level) ==
    IF level < max_level
    THEN LET next_level_xp == level_xp(level + 1, base, exponent) IN
         IF cumulative + next_level_xp > total_xp
         THEN level
         ELSE level_loop(level + 1, cumulative + next_level_xp,
                         total_xp, base, exponent, max_level)
    ELSE level

\* Mutant of level_from_xp: the comparison of the loop is turned around
\* (cumulative + next_level_xp < total_xp).
RECURSIVE level_loop_Flipped(_, _, _, _, _, _)
level_loop_Flipped(level, cumulative, total_xp, base, exponent, max_level) ==
    IF level < max_level /\ level < 8
    THEN LET next_level_xp == level_xp(level + 1, base, exponent) IN
         IF cumulative + next_level_xp < total_xp
         THEN level
         ELSE level_loop_Flipped(level + 1, cumulative + next_level_xp,
                                 total_xp, base, exponent, max_level)
    ELSE level

level_from_xp_Flipped(total_xp, base, exponent, max_level) ==
    level_loop_Flipped(1, 0, total_xp, base, exponent, max_level)

\* Mutant of level_from_xp: the loop also stops when the next level's
\* threshold is met exactly (cumulative + next_level_xp >= total_xp).
RECURSIVE level_loop_StopsOnEqual(_, _, _, _, _, _)
level_loop_StopsOnEqual(level, cumulative, total_xp, base, exponent, max_level) ==
    IF level < max_level
    THEN LET next_level_xp == level_xp(level + 1, base, exponent) IN
         IF cumulative + next_level_xp >= total_xp
         THEN level
         ELSE level_loop_StopsOnEqual(level + 1, cumulative + next_level_xp,
                                      total_xp, base, exponent, max_level)
    ELSE level

level_from_xp_StopsOnEqual(total_xp, base, exponent, max_level) ==
    level_loop_StopsOnEqual(1, 0, total_xp, base, exponent, max_level)

level_from_xp(total_xp, base, exponent, max_level) ==
    level_loop(1, 0, total_xp, base, exponent, max_level)

\* What the curve functions give for a total_xp: the level, and the XP at
\* which the next level starts (xp_for_level(level + 1), as in
\* progress_to_next_level).
Evaluated(c, max_level, total_xp) ==
    LET level == level_from_xp(total_xp, c.base, c.exponent, max_level) IN
    [base |-> c.base, exponent |-> c.exponent, max_level |-> max_level,
     total_xp |-> total_xp, level |-> level,
     xp_for_next |-> xp_for_level(level + 1, c.base, c.exponent)]

\* ---------------------------------------------------------------- xp table
\* level_rewards.json: level -> reward.
LEVEL_REWARDS ==
    [l \in {2, 3, 4} |->
        IF l = 2 THEN [message |-> "level 2"]
        ELSE IF l = 3 THEN [points |-> 500, message |-> "level 3"]
        ELSE [message |-> "level 4", tts |-> TRUE]]

\* A row of the xp table.
XpRow(total_xp, level) == [total_xp |-> total_xp, level |-> level]

\* The XP award in progress or last made: the XpAwardResult fields, the
\* levels the reward loop has still to visit (`todo`) and, as history, the
\* levels apply_level_rewards was called for (`calls`) and the reward
\* messages the caller has sent to chat (`sent`).
NoLevelUp ==
    [user_id |-> "", delta |-> 0, level_before |-> 1, level_after |-> 1,
     todo |-> << >>, calls |-> << >>, reward_actions |-> << >>,
     sent |-> << >>]

InitLevelVars ==
    /\ xp = << >>
    /\ levelup = NoLevelUp
    /\ curve = Evaluated([base |-> XP_BASE, exponent |-> XP_EXPONENT],
                         XP_MAX_LEVEL, 0)

\* ------------------------------------------------------------ admin batch
\* A batch request and its result so far: the parameters of the endpoint,
\* the users still to visit (`todo`) and the response fields. `points_before`,
\* `txs_before` and `xp_before` keep the tables (the length of the log) as
\* the request found them.
NoBatch ==
    [pc |-> "idle", kind |-> "", operation |-> "", amount |-> 0,
     target |-> "", user_ids |-> << >>, allow_negative |-> FALSE,
     todo |-> << >>, ok |-> TRUE, error |-> "",
     total_users |-> 0, success |-> 0, failed |-> 0,
     errors |-> << >>, level_ups |-> << >>,
     points_before |-> << >>, txs_before |-> 0, xp_before |-> << >>]

\* The record kept of a redeem call: who, which key, when, and the response.
NoRedeem ==
    [op |-> "none", user_name |-> "", key |-> "", at |-> 0,
     ok |-> FALSE, error |-> "", queue_id |-> 0]

\* The reconnect loop of the platform client before its first attempt:
\* backoff = 1.0, the loop at its top.
InitJoystick ==
    [pc |-> "connecting", backoff |-> BACKOFF_START, remaining |-> 0,
     stopped |-> FALSE]

Tabs == {"t1", "t2"}

\* What the background script did in its most recent callback.
NoEvent == [op |-> "load", raw |-> "", pinged |-> FALSE,
            sent |-> [t \in Tabs |-> 0]]

\* background.js once loaded: connect() has made the first socket, no timer
\* is set. `live` counts the sockets made and not closed yet; `intervals`
\* and `timeouts` hold the timers that are set, by handle, with the seconds
\* left until they fire.
InitExt ==
    [ws |-> "CONNECTING", live |-> 1, pingInterval |-> 0,
     intervals |-> << >>, timeouts |-> << >>, last |-> NoEvent]

\* content.js once loaded in a page: no message received yet.
InitPage ==
    [button |-> [found |-> FALSE, visible |-> FALSE, enabled |-> FALSE],
     msgs |-> << >>]

InitClientVars ==
    /\ joystick = InitJoystick
    /\ ext = InitExt
    /\ tabs = [t \in Tabs |-> "closed"]
    /\ page = InitPage

InitRequestVars ==
    /\ batch = NoBatch
    /\ redeemed = NoRedeem
    /\ InitClientVars

InitRest ==
    /\ InitQueueVars
    /\ InitLevelVars
    /\ InitRequestVars

\* ------------------------------------------------- sessions (SessionLocal)
\* A closed session: nothing loaded, nothing pending. `aborted` keeps the
\* position at which the session's last call was rolled back.
IdleSession ==
    [pc |-> "idle", op |-> "none", user_id |-> "", amount |-> 0,
     dirty |-> << >>, pending |-> << >>, todo |-> {}, aborted |-> "none"]

\* A session that has started a call.
OpenSession(pc, op, user_id, amount, dirty) ==
    [pc |-> pc, op |-> op, user_id |-> user_id, amount |-> amount,
     dirty |-> dirty, pending |-> << >>, todo |-> {}, aborted |-> "none"]

\* The points table after a flush of the session's loaded rows: each row is
\* written with the value the session holds for it.
Flushed(dirty) ==
    [u \in DOMAIN points \cup DOMAIN dirty |->
        IF u \in DOMAIN dirty THEN dirty[u] ELSE points[u]]

\* spend, line 449-451: load the row, raise when missing or short.
SpendGet(h, user_id, amount) ==
    /\ sess[h].pc = "idle"
    /\ IF user_id \notin DOMAIN points \/ points[user_id] < amount
       THEN /\ result' = [NoCall EXCEPT !.op = "spend", !.user_id = user_id,
                                        !.amount = amount,
                                        !.err = "Insufficient points"]
            /\ sess' = [sess EXCEPT ![h] = IdleSession]
       ELSE /\ sess' = [sess EXCEPT ![h] =
                           OpenSession("debit", "spend", user_id, amount,
                                       user_id :> points[user_id])]
            /\ UNCHANGED result
    /\ UNCHANGED <<points, txs, overridden, gateVars, restVars>>

\* Mutant of SpendDebit: the new balance is written through to the table at
\* once instead of waiting for the commit.
SpendDebit_WriteThrough(h) ==
    /\ sess[h].pc = "debit"
    /\ sess' = [sess EXCEPT ![h].dirty[sess[h].user_id] = @ - sess[h].amount,
                            ![h].pc = "add"]
    /\ points' = [points EXCEPT ![sess[h].user_id] = @ - sess[h].amount]
    /\ UNCHANGED <<txs, overridden, result, gateVars, restVars>>

\* spend, line 453: pts.balance -= amount, on the session's loaded row.
SpendDebit(h) ==
    /\ sess[h].pc = "debit"
    /\ sess' = [sess EXCEPT ![h].dirty[sess[h].user_id] = @ - sess[h].amount,
                            ![h].pc = "add"]
    /\ UNCHANGED <<points, txs, overridden, result, gateVars, restVars>>

\* spend, line 454-459: db.add(Transaction(...)), pending in the session.
SpendAdd(h) ==
    /\ sess[h].pc = "add"
    /\ sess' = [sess EXCEPT
                  ![h].pending = Append(@, Transaction(sess[h].user_id, "spend",
                                                       -sess[h].amount, "redeem")),
                  ![h].pc = "commit"]
    /\ UNCHANGED <<points, txs, overridden, result, gateVars, restVars>>

\* ensure_user, line 526-529: look the user up; an existing user only commits.
EnsureGet(h, name) ==
    /\ sess[h].pc = "idle"
    /\ IF name \in DOMAIN points
       THEN /\ result' = [NoCall EXCEPT !.op = "ensure_user", !.user_id = name]
            /\ sess' = [sess EXCEPT ![h] = IdleSession]
       ELSE /\ sess' = [sess EXCEPT ![h] =
                           OpenSession("create", "ensure_user", name, 0, << >>)]
            /\ UNCHANGED result
    /\ UNCHANGED <<points, txs, overridden, gateVars, restVars>>

\* ensure_user, line 530-536: add the user, flush, add Points(balance=0).
EnsureCreate(h) ==
    /\ sess[h].pc = "create"
    /\ sess' = [sess EXCEPT ![h].dirty = sess[h].user_id :> 0,
                            ![h].pc = IF POINTS_START_AMOUNT > 0
                                      THEN "start" ELSE "commit"]
    /\ UNCHANGED <<points, txs, overridden, result, gateVars, restVars>>

\* ensure_user, line 539-547: set the starting balance, add its transaction.
EnsureStart(h) ==
    /\ sess[h].pc = "start"
    /\ sess' = [sess EXCEPT
                  ![h].dirty[sess[h].user_id] = POINTS_START_AMOUNT,
                  ![h].pending = Append(@, Transaction(sess[h].user_id, "grant",
                                                       POINTS_START_AMOUNT, "start")),
                  ![h].pc = "commit"]
    /\ UNCHANGED <<points, txs, overridden, result, gateVars, restVars>>

\* Batch grant, line 441-442: open one session for all users.
BatchBegin(h) ==
    /\ sess[h].pc = "idle"
    /\ DOMAIN points # {}
    /\ sess' = [sess EXCEPT ![h] =
                   [OpenSession("batch", "batch", "", 100, << >>)
                       EXCEPT !.todo = DOMAIN points]]
    /\ UNCHANGED <<points, txs, overridden, result, gateVars, restVars>>

\* Batch grant, line 443-445: load the next user's row, add 100 to it, add
\* its transaction; nothing is committed until every user has been visited.
BatchStep(h, user_id) ==
    /\ sess[h].pc = "batch"
    /\ user_id \in sess[h].todo
    /\ sess' = [sess EXCEPT
                  ![h].dirty = (user_id :> points[user_id] + sess[h].amount) @@ @,
                  ![h].pending = Append(@, Transaction(user_id, "grant",
                                                       sess[h].amount, "event")),
                  ![h].todo = @ \ {user_id},
                  ![h].pc = IF sess[h].todo = {user_id} THEN "commit" ELSE "batch"]
    /\ UNCHANGED <<points, txs, overridden, result, gateVars, restVars>>

\* db.commit(): the loaded rows and the pending transactions reach the tables
\* together, and the call returns.
SessionCommit(h) ==
    /\ sess[h].pc = "commit"
    /\ Len(txs) + Len(sess[h].pending) <= MaxTx
    /\ points' = Flushed(sess[h].dirty)
    /\ txs' = txs \o sess[h].pending
    /\ result' = [NoCall EXCEPT
                    !.op = sess[h].op, !.user_id = sess[h].user_id,
                    !.amount = sess[h].amount,
                    !.ret = IF sess[h].op = "spend"
                            THEN sess[h].dirty[sess[h].user_id] ELSE 0]
    /\ sess' = [sess EXCEPT ![h] = IdleSession]
    /\ UNCHANGED <<overridden, gateVars, restVars>>

\* An exception before the commit: the session is rolled back and closed.
SessionFail(h) ==
    /\ sess[h].pc # "idle"
    /\ result' = [NoCall EXCEPT
                    !.op = sess[h].op, !.user_id = sess[h].user_id,
                    !.amount = sess[h].amount, !.err = "rollback"]
    /\ sess' = [sess EXCEPT ![h] = [IdleSession EXCEPT !.aborted = sess[h].pc]]
    /\ UNCHANGED <<points, txs, overridden, gateVars, restVars>>

\* One session at a time, step by step, with failures.
InitTxn ==
    /\ points = << >>
    /\ txs = << >>
    /\ overridden = {}
    /\ result = NoCall
    /\ sess = [h \in Handlers |-> IdleSession]
    /\ InitGateVars
    /\ InitRest

NextTxn ==
    \E h \in {"h1"} :
        \/ \E name \in Subjects : EnsureGet(h, name)
        \/ EnsureCreate(h)
        \/ EnsureStart(h)
        \/ \E u \in Subjects, a \in SpendAmounts : SpendGet(h, u, a)
        \/ SpendDebit(h)
        \/ SpendAdd(h)
        \/ BatchBegin(h)
        \/ \E u \in Subjects : BatchStep(h, u)
        \/ SessionCommit(h)
        \/ SessionFail(h)

SpecTxn == InitTxn /\ [][NextTxn]_vars

\* Two handlers with a session each, interleaved; both users already exist
\* with their starting balance.
InitConc ==
    /\ points = [u \in Subjects |-> POINTS_START_AMOUNT]
    /\ txs = <<Transaction("alice", "grant", POINTS_START_AMOUNT, "start"),
               Transaction("bob", "grant", POINTS_START_AMOUNT, "start")>>
    /\ overridden = {}
    /\ result = NoCall
    /\ sess = [h \in Handlers |-> IdleSession]
    /\ InitGateVars
    /\ InitRest

NextConc ==
    \E h \in Handlers :
        \/ \E u \in Subjects, a \in SpendAmounts : SpendGet(h, u, a)
        \/ SpendDebit(h)
        \/ SpendAdd(h)
        \/ BatchBegin(h)
        \/ \E u \in Subjects : BatchStep(h, u)
        \/ SessionCommit(h)

SpecConc == InitConc /\ [][NextConc]_vars

\* ------------------------------------- the ledger, one call after another
InitLedger ==
    /\ points = << >>
    /\ txs = << >>
    /\ overridden = {}
    /\ result = NoCall
    /\ sess = [h \in Handlers |-> IdleSession]
    /\ InitGateVars
    /\ InitRest

EnsureUser(name) ==
    LET out == ensure_user(name) IN
    /\ Commit(out)
    /\ result' = Call("ensure_user", name, 0, FALSE, out)
    /\ UNCHANGED <<overridden, sess, gateVars, restVars>>

Grant(user_id, amount) ==
    /\ user_id \in DOMAIN points
    /\ LET out == grant(user_id, amount, "chat") IN
       /\ Commit(out)
       /\ result' = Call("grant", user_id, amount, FALSE, out)
    /\ UNCHANGED <<overridden, sess, gateVars, restVars>>

Spend(user_id, amount) ==
    LET out == spend(user_id, amount, "redeem") IN
    /\ Commit(out)
    /\ result' = Call("spend", user_id, amount, FALSE, out)
    /\ UNCHANGED <<overridden, sess, gateVars, restVars>>

Adjust(user_id, delta, allow_negative_balance) ==
    /\ user_id \in DOMAIN points
    /\ LET out == adjust(user_id, delta, "admin", allow_negative_balance) IN
       /\ Commit(out)
       /\ result' = Call("adjust", user_id, delta, allow_negative_balance, out)
       /\ overridden' = IF allow_negative_balance /\ out.err = ""
                        THEN overridden \cup {user_id} ELSE overridden
    /\ UNCHANGED <<sess, gateVars, restVars>>

Init == InitLedger

Next ==
    \/ \E name \in Subjects : EnsureUser(name)
    \/ \E u \in Subjects, a \in GrantAmounts : Grant(u, a)
    \/ \E u \in Subjects, a \in SpendAmounts : Spend(u, a)
    \/ \E u \in Subjects, d \in AdjustDeltas, f \in BOOLEAN : Adjust(u, d, f)

Spec == Init /\ [][Next]_vars

\* ------------------------------------------------- the gate, step by step
\* The clock advances.
Tick ==
    /\ now < MaxTime
    /\ now' = now + 1
    /\ verdict' = NoVerdict
    /\ UNCHANGED <<cooldowns, lastAdmit, gate, ledgerVars, restVars>>

\* The admission sequence of a gated handler (on_chat, redeem), run to its
\* end: is_active, return when active, otherwise go on and set the cooldown;
\* `lag` ticks pass between the check and the set.
Admit(user_id, key, duration_seconds, lag) ==
    LET chk == is_active(cooldowns, now, user_id, key) IN
    /\ verdict' = Verdict(user_id, key, now, chk)
    /\ IF chk.active
       THEN /\ cooldowns' = chk.cooldowns
            /\ UNCHANGED <<now, lastAdmit>>
       ELSE /\ now + lag <= MaxTime
            /\ now' = now + lag
            /\ cooldowns' = set(chk.cooldowns, now', user_id, key, duration_seconds)
            /\ lastAdmit' = [lastAdmit EXCEPT ![<<user_id, key>>] =
                                [t |-> now', d |-> duration_seconds]]
    /\ UNCHANGED <<gate, ledgerVars, restVars>>

InitGate ==
    /\ points = << >>
    /\ txs = << >>
    /\ overridden = {}
    /\ result = NoCall
    /\ sess = [h \in Handlers |-> IdleSession]
    /\ InitGateVars
    /\ InitRest

NextGate ==
    \/ Tick
    \/ \E u \in Subjects, k \in Keys, d \in Durations, lag \in 0..MaxLag :
          Admit(u, k, d, lag)

SpecGate == InitGate /\ [][NextGate]_vars

\* ------------------------------------------- on_chat, two at the same time
\* on_chat, line 337-342: ensure_user, then the cooldown check.
ChatCheck(h, user) ==
    /\ gate[h].pc = "idle"
    /\ user \in DOMAIN points
    /\ LET chk == is_active(cooldowns, now, user, "points:chat") IN
       /\ verdict' = Verdict(user, "points:chat", now, chk)
       /\ cooldowns' = chk.cooldowns
       /\ gate' = [gate EXCEPT ![h] =
                      IF chk.active THEN IdleGate
                      ELSE [pc |-> "grant", user_id |-> user]]
    /\ UNCHANGED <<now, lastAdmit, ledgerVars, restVars>>

\* on_chat, line 345-346: grant the chat points.
ChatGrant(h) ==
    /\ gate[h].pc = "grant"
    /\ LET out == grant(gate[h].user_id, POINTS_CHAT_AMOUNT, "chat") IN
       /\ Commit(out)
       /\ result' = Call("grant", gate[h].user_id, POINTS_CHAT_AMOUNT, FALSE, out)
    /\ gate' = [gate EXCEPT ![h].pc = "set"]
    /\ UNCHANGED <<overridden, sess, cooldowns, now, verdict, lastAdmit, restVars>>

\* on_chat, line 349: set the new cooldown.
ChatSet(h) ==
    /\ gate[h].pc = "set"
    /\ cooldowns' = set(cooldowns, now, gate[h].user_id, "points:chat",
                        POINTS_CHAT_COOLDOWN_SECONDS)
    /\ lastAdmit' = [lastAdmit EXCEPT ![<<gate[h].user_id, "points:chat">>] =
                        [t |-> now, d |-> POINTS_CHAT_COOLDOWN_SECONDS]]
    /\ gate' = [gate EXCEPT ![h] = IdleGate]
    /\ UNCHANGED <<now, verdict, ledgerVars, restVars>>

InitRace ==
    /\ points = [u \in Subjects |-> POINTS_START_AMOUNT]
    /\ txs = <<Transaction("alice", "grant", POINTS_START_AMOUNT, "start"),
               Transaction("bob", "grant", POINTS_START_AMOUNT, "start")>>
    /\ overridden = {}
    /\ result = NoCall
    /\ sess = [h \in Handlers |-> IdleSession]
    /\ InitGateVars
    /\ InitRest

NextRace ==
    \/ Tick
    \/ \E h \in Handlers :
          \/ \E u \in Subjects : ChatCheck(h, u)
          \/ ChatGrant(h)
          \/ ChatSet(h)

SpecRace == InitRace /\ [][NextRace]_vars

\* ------------------------------------------- on_chat with a failing grant
\* Mutant of on_chat: the cooldown is set before the points are granted.
on_chat_SetsFirst(user, db_fails) ==
    LET u == ensure_user(user)
        chk == is_active(cooldowns, now, user, "points:chat")
        armed == set(chk.cooldowns, now, user, "points:chat",
                     POINTS_CHAT_COOLDOWN_SECONDS)
        g == [err |-> "", points |-> [u.points EXCEPT ![user] = @ + POINTS_CHAT_AMOUNT],
              txs |-> Append(u.txs, Transaction(user, "grant", POINTS_CHAT_AMOUNT, "chat")),
              ret |-> u.points[user] + POINTS_CHAT_AMOUNT]
    IN  IF chk.active
        THEN [out |-> u, chk |-> chk, cooldowns |-> chk.cooldowns, granted |-> FALSE]
        ELSE IF db_fails
        THEN [out |-> Outcome("SQLAlchemyError", u.points, u.txs, 0), chk |-> chk,
              cooldowns |-> armed, granted |-> FALSE]
        ELSE [out |-> g, chk |-> chk, cooldowns |-> armed, granted |-> TRUE]

\* on_chat(user, text) with POINTS_ENABLED on: ensure_user, the cooldown
\* check, the grant and then the new cooldown. When the database refuses the
\* grant (SQLAlchemyError) the exception leaves the handler before
\* cooldowns.set is reached and the grant's session is not committed.
on_chat(user, db_fails) ==
    LET u == ensure_user(user)
        chk == is_active(cooldowns, now, user, "points:chat")
        g == [err |-> "", points |-> [u.points EXCEPT ![user] = @ + POINTS_CHAT_AMOUNT],
              txs |-> Append(u.txs, Transaction(user, "grant", POINTS_CHAT_AMOUNT, "chat")),
              ret |-> u.points[user] + POINTS_CHAT_AMOUNT]
    IN  IF chk.active
        THEN [out |-> u, chk |-> chk, cooldowns |-> chk.cooldowns, granted |-> FALSE]
        ELSE IF db_fails
        THEN [out |-> Outcome("SQLAlchemyError", u.points, u.txs, 0), chk |-> chk,
              cooldowns |-> chk.cooldowns, granted |-> FALSE]
        ELSE [out |-> g, chk |-> chk,
              cooldowns |-> set(chk.cooldowns, now, user, "points:chat",
                                POINTS_CHAT_COOLDOWN_SECONDS),
              granted |-> TRUE]

\* A chat message of `user` arrives and on_chat runs to its end.
OnChat(user, db_fails) ==
    LET run == on_chat(user, db_fails) IN
    /\ Commit(run.out)
    /\ result' = IF run.chk.active THEN NoCall
                 ELSE Call("grant", user, POINTS_CHAT_AMOUNT, FALSE, run.out)
    /\ verdict' = Verdict(user, "points:chat", now, run.chk)
    /\ cooldowns' = run.cooldowns
    /\ lastAdmit' = IF run.granted
                    THEN [lastAdmit EXCEPT ![<<user, "points:chat">>] =
                             [t |-> now, d |-> POINTS_CHAT_COOLDOWN_SECONDS]]
                    ELSE lastAdmit
    /\ UNCHANGED <<overridden, sess, now, gate, restVars>>

NextChat ==
    \/ Tick
    \/ \E u \in Subjects, f \in BOOLEAN : OnChat(u, f)

SpecChat == InitGate /\ [][NextChat]_vars

\* ------------------------------------------------------- the effect queue
\* db.add(QueueItem(kind=..., status="pending", ...)); db.commit()
Enqueue(kind, payload) ==
    /\ NewId(queue_items) <= MaxItems
    /\ queue_items' = [i \in DOMAIN queue_items \cup {NewId(queue_items)} |->
                          IF i \in DOMAIN queue_items THEN queue_items[i]
                          ELSE QueueItem(kind, payload)]
    /\ polled' = NoPoll
    /\ UNCHANGED <<workers, utcnow, delivered, ledgerVars, gateVars, levelVars, requestVars>>

\* datetime.utcnow() advances.
QTick ==
    /\ utcnow < MaxClock
    /\ utcnow' = utcnow + 1
    /\ polled' = NoPoll
    /\ UNCHANGED <<queue_items, workers, delivered, ledgerVars, gateVars, levelVars, requestVars>>

\* Mutant of ClipClaim: the newest pending clip item is taken
\* (order_by(QueueItem.id.desc())).
ClipClaim_NewestFirst(w) ==
    LET pending == {i \in DOMAIN queue_items :
                       queue_items[i].kind = "clip"
                       /\ queue_items[i].status = "pending"} IN
    /\ workers[w].pc = "idle"
    /\ pending # {}
    /\ LET id == CHOOSE i \in pending : \A j \in pending : j <= i IN
       /\ queue_items' = [queue_items EXCEPT ![id].status = "running",
                                             ![id].claimed_at = utcnow]
       /\ workers' = [workers EXCEPT ![w] =
                         [pc |-> "effect", item |-> id, status |-> "running",
                          error |-> ""]]
       /\ delivered' = [delivered EXCEPT !["clip"] = id]
    /\ polled' = NoPoll
    /\ UNCHANGED <<utcnow, ledgerVars, gateVars, levelVars, requestVars>>

\* process_clip_queue: the oldest pending clip item is selected, set running
\* and committed; the task then awaits obs.save_replay_buffer(). (With no
\* pending item the task sleeps and selects again: nothing changes.)
ClipClaim(w) ==
    LET id == FirstWith(queue_items, "clip", "pending") IN
    /\ workers[w].pc = "idle"
    /\ id # 0
    /\ queue_items' = [queue_items EXCEPT ![id].status = "running",
                                          ![id].claimed_at = utcnow]
    /\ workers' = [workers EXCEPT ![w] =
                      [pc |-> "effect", item |-> id, status |-> "running",
                       error |-> ""]]
    /\ delivered' = [delivered EXCEPT !["clip"] = id]
    /\ polled' = NoPoll
    /\ UNCHANGED <<utcnow, ledgerVars, gateVars, levelVars, requestVars>>

\* obs.save_replay_buffer() returned: item.status = "done" (not yet
\* committed); the task awaits joystick.send_message inside the try block.
ClipEffectOk(w) ==
    /\ workers[w].pc = "effect"
    /\ workers' = [workers EXCEPT ![w].pc = "notify_ok", ![w].status = "done"]
    /\ polled' = NoPoll
    /\ UNCHANGED <<queue_items, utcnow, delivered, ledgerVars, gateVars, levelVars, requestVars>>

\* obs.save_replay_buffer() raised: except Exception sets item.status =
\* "failed"; the task awaits joystick.send_message inside the except block.
ClipEffectRaise(w) ==
    /\ workers[w].pc = "effect"
    /\ workers' = [workers EXCEPT ![w].pc = "notify_err", ![w].status = "failed",
                                  ![w].error = "effect"]
    /\ polled' = NoPoll
    /\ UNCHANGED <<queue_items, utcnow, delivered, ledgerVars, gateVars, levelVars, requestVars>>

\* obs.save_replay_buffer() never returns (the await has no timeout).
ClipEffectHang(w) ==
    /\ workers[w].pc = "effect"
    /\ workers' = [workers EXCEPT ![w].pc = "hung"]
    /\ polled' = NoPoll
    /\ UNCHANGED <<queue_items, utcnow, delivered, ledgerVars, gateVars, levelVars, requestVars>>

\* joystick.send_message returned: the final db.commit() writes item.status
\* and item.finished_at, and the loop starts over.
ClipNotifySent(w) ==
    /\ workers[w].pc \in {"notify_ok", "notify_err"}
    /\ workers[w].item \in DOMAIN queue_items
    /\ queue_items' = [queue_items EXCEPT
                          ![workers[w].item].status = workers[w].status,
                          ![workers[w].item].finished_at = utcnow]
    /\ workers' = [workers EXCEPT ![w] = IdleWorker]
    /\ polled' = NoPoll
    /\ UNCHANGED <<utcnow, delivered, ledgerVars, gateVars, levelVars, requestVars>>

\* joystick.send_message raised. Inside the try block the except block takes
\* over (item.status = "failed", then its own send_message); inside the
\* except block nothing catches it: the exception leaves the while loop, the
\* session closes without a commit and the task ends.
ClipNotifyRaise(w) ==
    /\ workers[w].pc \in {"notify_ok", "notify_err"}
    /\ workers' = [workers EXCEPT ![w] =
                      IF workers[w].pc = "notify_ok"
                      THEN [@ EXCEPT !.pc = "notify_err", !.status = "failed",
                                     !.error = "notify"]
                      ELSE [@ EXCEPT !.pc = "dead"]]
    /\ polled' = NoPoll
    /\ UNCHANGED <<queue_items, utcnow, delivered, ledgerVars, gateVars, levelVars, requestVars>>

\* "Alice said: Hello" with TTS_PREFIX_USERNAME, "Hello" without.
Capitalized == [u \in {"alice", "bob"} |-> IF u = "alice" THEN "Alice" ELSE "Bob"]

build_text(payload) ==
    IF payload.prefix
    THEN <<Capitalized[payload.user], "said:", "Hello">>
    ELSE <<"Hello">>

\* Mutant of next_plain: the running item is spoken without waiting for the
\* pre-sound delay.
next_plain_NoDelay(q, t) ==
    LET running == FirstWith(q, "tts", "running")
        pending == FirstWith(q, "tts", "pending")
    IN  IF running # 0
        THEN [queue_items |-> [q EXCEPT ![running].status = "done",
                                        ![running].finished_at = t,
                                        ![running].spoken = @ + 1],
              item |-> running, ret |-> build_text(q[running].payload),
              spoken |-> TRUE]
        ELSE IF pending # 0
        THEN [queue_items |-> [q EXCEPT ![pending].status = "running",
                                        ![pending].started_at = t,
                                        ![pending].primed_at = t,
                                        ![pending].claimed_at = t,
                                        ![pending].cues = @ + 1],
              item |-> pending, ret |-> << >>, spoken |-> FALSE]
        ELSE [queue_items |-> q, item |-> 0, ret |-> << >>, spoken |-> FALSE]

\* Mutant of next_plain: a poll that finds the running item before the delay
\* has passed plays the pre-sound again.
next_plain_ReplaysCue(q, t) ==
    LET running == FirstWith(q, "tts", "running")
        pending == FirstWith(q, "tts", "pending")
    IN  IF running # 0
        THEN IF t >= q[running].primed_at + TTS_PRE_DELAY
             THEN [queue_items |-> [q EXCEPT ![running].status = "done",
                                             ![running].finished_at = t,
                                             ![running].spoken = @ + 1],
                   item |-> running, ret |-> build_text(q[running].payload),
                   spoken |-> TRUE]
             ELSE [queue_items |-> [q EXCEPT ![running].cues = @ + 1],
                   item |-> running, ret |-> << >>, spoken |-> FALSE]
        ELSE IF pending # 0
        THEN [queue_items |-> [q EXCEPT ![pending].status = "running",
                                        ![pending].started_at = t,
                                        ![pending].primed_at = t,
                                        ![pending].claimed_at = t,
                                        ![pending].cues = @ + 1],
              item |-> pending, ret |-> << >>, spoken |-> FALSE]
        ELSE [queue_items |-> q, item |-> 0, ret |-> << >>, spoken |-> FALSE]

\* TTSService.next_plain at time t on the table q. Stage 2 comes first: a
\* running item is spoken once primed_at + TTS_PRE_DELAY_MS has passed and
\* until then the call returns the empty string. Stage 1: with no running
\* item the first pending item is set running and primed_at recorded, and the
\* call returns the empty string.
next_plain(q, t) ==
    LET running == FirstWith(q, "tts", "running")
        pending == FirstWith(q, "tts", "pending")
    IN  IF running # 0
        THEN IF t >= q[running].primed_at + TTS_PRE_DELAY
             THEN [queue_items |-> [q EXCEPT ![running].status = "done",
                                             ![running].finished_at = t,
                                             ![running].spoken = @ + 1],
                   item |-> running, ret |-> build_text(q[running].payload),
                   spoken |-> TRUE]
             ELSE [queue_items |-> q, item |-> running, ret |-> << >>,
                   spoken |-> FALSE]
        ELSE IF pending # 0
        THEN [queue_items |-> [q EXCEPT ![pending].status = "running",
                                        ![pending].started_at = t,
                                        ![pending].primed_at = t,
                                        ![pending].claimed_at = t,
                                        ![pending].cues = @ + 1],
              item |-> pending, ret |-> << >>, spoken |-> FALSE]
        ELSE [queue_items |-> q, item |-> 0, ret |-> << >>, spoken |-> FALSE]

\* The queue processor calls next_plain().
NextPlain ==
    LET out == next_plain(queue_items, utcnow) IN
    /\ queue_items' = out.queue_items
    /\ polled' = [op |-> "next_plain", item |-> out.item, ret |-> out.ret,
                  at |-> utcnow]
    /\ delivered' = IF out.spoken THEN [delivered EXCEPT !["tts"] = out.item]
                     ELSE delivered
    /\ UNCHANGED <<workers, utcnow, ledgerVars, gateVars, levelVars, requestVars>>

\* "Reset stuck items": running tts items whose started_at is more than five
\* minutes back are set failed (a NULL started_at matches no comparison).
ResetStuck ==
    LET stuck == {i \in DOMAIN queue_items :
                     /\ queue_items[i].kind = "tts"
                     /\ queue_items[i].status = "running"
                     /\ queue_items[i].started_at # NULL
                     /\ queue_items[i].started_at < utcnow - STUCK_AFTER} IN
    /\ stuck # {}
    /\ queue_items' = [i \in DOMAIN queue_items |->
                          IF i \in stuck
                          THEN [queue_items[i] EXCEPT !.status = "failed"]
                          ELSE queue_items[i]]
    /\ polled' = NoPoll
    /\ UNCHANGED <<workers, utcnow, delivered, ledgerVars, gateVars, levelVars, requestVars>>

\* "Clear failed items": the failed tts rows are deleted.
ClearFailed ==
    LET failed == {i \in DOMAIN queue_items :
                      queue_items[i].kind = "tts"
                      /\ queue_items[i].status = "failed"} IN
    /\ failed # {}
    /\ queue_items' = [i \in DOMAIN queue_items \ failed |-> queue_items[i]]
    /\ polled' = NoPoll
    /\ UNCHANGED <<workers, utcnow, delivered, ledgerVars, gateVars, levelVars, requestVars>>

\* "Or mark all pending as complete": the pending tts rows are set done.
MarkPendingDone ==
    LET pending == {i \in DOMAIN queue_items :
                       queue_items[i].kind = "tts"
                       /\ queue_items[i].status = "pending"} IN
    /\ pending # {}
    /\ queue_items' = [i \in DOMAIN queue_items |->
                          IF i \in pending
                          THEN [queue_items[i] EXCEPT !.status = "done"]
                          ELSE queue_items[i]]
    /\ polled' = NoPoll
    /\ UNCHANGED <<workers, utcnow, delivered, ledgerVars, gateVars, levelVars, requestVars>>

InitQueue ==
    /\ points = << >>
    /\ txs = << >>
    /\ overridden = {}
    /\ result = NoCall
    /\ sess = [h \in Handlers |-> IdleSession]
    /\ InitGateVars
    /\ InitRest

\* One process_clip_queue task, as started by
\* asyncio.create_task(process_clip_queue()).
ClipWorker(w) ==
    \/ ClipClaim(w)
    \/ ClipEffectOk(w)
    \/ ClipEffectRaise(w)
    \/ ClipEffectHang(w)
    \/ ClipNotifySent(w)
    \/ ClipNotifyRaise(w)

NextQueue ==
    \/ \E p \in Payloads["clip"] : Enqueue("clip", p)
    \/ QTick
    \/ ClipWorker("w1")

SpecQueue == InitQueue /\ [][NextQueue]_vars

\* The tts queue: producers, next_plain() polls and the maintenance snippets.
NextTts ==
    \/ \E p \in Payloads["tts"] : Enqueue("tts", p)
    \/ QTick
    \/ NextPlain
    \/ ResetStuck
    \/ ClearFailed
    \/ MarkPendingDone

SpecTts == InitQueue /\ [][NextTts]_vars

\* The bot process is shut down while a tts item is running and is started
\* again: the rows of queue_items are in the database file and are kept as
\* they are, and the queue processor polls again.
Restart ==
    LET cut == {i \in DOMAIN queue_items :
                   /\ queue_items[i].kind = "tts"
                   /\ queue_items[i].status = "running"
                   /\ ~queue_items[i].interrupted} IN
    /\ cut # {}
    /\ queue_items' = [i \in DOMAIN queue_items |->
                          IF i \in cut
                          THEN [queue_items[i] EXCEPT !.interrupted = TRUE]
                          ELSE queue_items[i]]
    /\ polled' = NoPoll
    /\ UNCHANGED <<workers, utcnow, delivered, ledgerVars, gateVars, levelVars, requestVars>>

\* The tts queue with shutdowns of the process between polls.
NextTtsRestart ==
    \/ \E p \in Payloads["tts"] : Enqueue("tts", p)
    \/ QTick
    \/ NextPlain
    \/ ResetStuck
    \/ Restart

SpecTtsRestart == InitQueue /\ [][NextTtsRestart]_vars

\* A step of the processor of a kind.
Drain(kind) ==
    IF kind = "clip" THEN ClipWorker("w1") ELSE NextPlain

\* Several process_clip_queue tasks (QUEUE_MAX_WORKERS) on the same table.
NextQueueConc ==
    \/ \E p \in Payloads["clip"] : Enqueue("clip", p)
    \/ QTick
    \/ \E w \in QueueWorkers : ClipWorker(w)

SpecQueueConc == InitQueue /\ [][NextQueueConc]_vars

\* ------------------------------------------------------------ XP awards
\* Mutant of reward_levels: only the level reached is rewarded.
reward_levels_FinalOnly(before_level, new_level) ==
    IF new_level > before_level THEN <<new_level>> ELSE << >>

\* Mutant of reward_levels: a level-down visits the levels lost as well.
reward_levels_AlsoDown(before_level, new_level) ==
    IF new_level > before_level
    THEN [k \in 1..(new_level - before_level) |-> before_level + k]
    ELSE [k \in 1..(before_level - new_level) |-> new_level + k]

\* if new_level > before_level:
\*     for lvl in range(before_level + 1, new_level + 1): ...
reward_levels(before_level, new_level) ==
    IF new_level > before_level
    THEN [k \in 1..(new_level - before_level) |-> before_level + k]
    ELSE << >>

\* apply_level_rewards(db, user_id, user_name, new_level): the tables it
\* leaves and the actions it returns.
apply_level_rewards(user_id, new_level) ==
    IF new_level \notin DOMAIN LEVEL_REWARDS
    THEN [points |-> points, txs |-> txs, queue_items |-> queue_items,
          actions |-> << >>]
    ELSE
    LET reward == LEVEL_REWARDS[new_level]
        has_points == "points" \in DOMAIN reward
        has_message == "message" \in DOMAIN reward
        has_tts == has_message /\ "tts" \in DOMAIN reward /\ reward.tts
        granted == IF has_points
                   THEN grant(user_id, reward.points,
                              "level_" \o ToString(new_level))
                   ELSE Outcome("", points, txs, 0)
    IN  [points |-> granted.points,
         txs |-> granted.txs,
         queue_items |->
             IF has_tts
             THEN [i \in DOMAIN queue_items \cup {NewId(queue_items)} |->
                      IF i \in DOMAIN queue_items THEN queue_items[i]
                      ELSE QueueItem("tts", [user |-> user_id, prefix |-> FALSE])]
             ELSE queue_items,
         actions |->
             (IF has_points
              THEN <<[type |-> "points", level |-> new_level]>> ELSE << >>)
             \o (IF has_tts THEN <<[type |-> "tts", level |-> new_level]>>
                 ELSE IF has_message
                 THEN <<[type |-> "message", level |-> new_level]>>
                 ELSE << >>)]

\* Mutant of apply_xp: the stored level is never lowered.
apply_xp_KeepsLevel(user_id, delta) ==
    /\ user_id \in DOMAIN xp
    /\ levelup.todo = << >>
    /\ xp[user_id].total_xp + delta <= MaxXp
    /\ xp[user_id].total_xp + delta >= -MaxXpDebt
    /\ LET total == xp[user_id].total_xp + delta
           before_level == xp[user_id].level
           computed == level_from_xp(total, XP_BASE, XP_EXPONENT, XP_MAX_LEVEL)
           new_level == IF computed < before_level THEN before_level ELSE computed
       IN  /\ xp' = [xp EXCEPT ![user_id] = XpRow(total, new_level)]
           /\ levelup' = [user_id |-> user_id, delta |-> delta,
                          level_before |-> before_level,
                          level_after |-> new_level,
                          todo |-> reward_levels(before_level, new_level),
                          calls |-> << >>, reward_actions |-> << >>,
                          sent |-> << >>]

\* An XP award or adjustment (delta positive or negative): total_xp changes
\* by delta, the level is recomputed from the curve and the reward loop is
\* entered with the levels crossed.
apply_xp(user_id, delta) ==
    /\ user_id \in DOMAIN xp
    /\ levelup.todo = << >>
    /\ xp[user_id].total_xp + delta <= MaxXp
    /\ xp[user_id].total_xp + delta >= -MaxXpDebt
    /\ LET total == xp[user_id].total_xp + delta
           before_level == xp[user_id].level
           new_level == level_from_xp(total, XP_BASE, XP_EXPONENT, XP_MAX_LEVEL)
       IN  /\ xp' = [xp EXCEPT ![user_id] = XpRow(total, new_level)]
           /\ levelup' = [user_id |-> user_id, delta |-> delta,
                          level_before |-> before_level,
                          level_after |-> new_level,
                          todo |-> reward_levels(before_level, new_level),
                          calls |-> << >>, reward_actions |-> << >>,
                          sent |-> << >>]

\* XpService.adjust / handle_event called on its own.
XpAward(user_id, delta) ==
    /\ apply_xp(user_id, delta)
    /\ UNCHANGED <<curve, ledgerVars, gateVars, queueVars, requestVars>>

\* One turn of the reward loop: apply_level_rewards for the next level.
LevelReward ==
    /\ levelup.todo # << >>
    /\ LET lvl == Head(levelup.todo)
           out == apply_level_rewards(levelup.user_id, lvl)
       IN  /\ Len(out.txs) <= MaxTx
           /\ NewId(queue_items) <= MaxItems
           /\ points' = out.points
           /\ txs' = out.txs
           /\ queue_items' = out.queue_items
           /\ levelup' = [levelup EXCEPT
                             !.todo = Tail(@),
                             !.calls = Append(@, lvl),
                             !.reward_actions = @ \o out.actions]
    /\ UNCHANGED <<xp, curve, overridden, result, sess, gateVars, requestVars,
                   workers, utcnow, polled, delivered>>

\* on_tip, after handle_event has returned: the reward actions of type
\* "message" are sent to chat, in order.
OnTipMessages ==
    /\ levelup.todo = << >>
    /\ levelup.sent = << >>
    /\ \E k \in DOMAIN levelup.reward_actions :
          levelup.reward_actions[k].type = "message"
    /\ levelup' = [levelup EXCEPT !.sent =
                       SelectSeq(levelup.reward_actions,
                                 LAMBDA a : a.type = "message")]
    /\ UNCHANGED <<xp, curve, ledgerVars, gateVars, queueVars, requestVars>>

\* Both users exist, with their starting balance and an empty xp row.
InitXp ==
    /\ points = [u \in Subjects |-> POINTS_START_AMOUNT]
    /\ txs = <<Transaction("alice", "grant", POINTS_START_AMOUNT, "start"),
               Transaction("bob", "grant", POINTS_START_AMOUNT, "start")>>
    /\ overridden = {}
    /\ result = NoCall
    /\ sess = [h \in Handlers |-> IdleSession]
    /\ InitGateVars
    /\ InitQueueVars
    /\ xp = [u \in Subjects |-> XpRow(0, 1)]
    /\ levelup = NoLevelUp
    /\ curve = Evaluated([base |-> XP_BASE, exponent |-> XP_EXPONENT],
                         XP_MAX_LEVEL, 0)
    /\ InitRequestVars

\* XP amounts awarded, and one administrative correction.
XpDeltas == {700, 2300, -700}

NextXp ==
    \/ \E u \in Subjects, d \in XpDeltas : XpAward(u, d)
    \/ LevelReward
    \/ OnTipMessages

SpecXp == InitXp /\ [][NextXp]_vars

\* ------------------------------------------------- the curve, on its own
\* total_xp values the evaluation starts from, and the steps it grows by.
XpStarts == {-100, 0}
XpSteps == {1, 50, 149}

InitCurve ==
    /\ points = << >>
    /\ txs = << >>
    /\ overridden = {}
    /\ result = NoCall
    /\ sess = [h \in Handlers |-> IdleSession]
    /\ InitGateVars
    /\ InitQueueVars
    /\ xp = << >>
    /\ levelup = NoLevelUp
    /\ curve \in {Evaluated(c, m, x) : c \in Curves, m \in MaxLevels, x \in XpStarts}
    /\ InitRequestVars

\* The curve functions are evaluated for a larger total_xp.
CurveEvaluate(step) ==
    /\ curve.total_xp + step <= MaxXp
    /\ curve' = Evaluated([base |-> curve.base, exponent |-> curve.exponent],
                          curve.max_level, curve.total_xp + step)
    /\ UNCHANGED <<xp, levelup, ledgerVars, gateVars, queueVars, requestVars>>

NextCurve == \E step \in XpSteps : CurveEvaluate(step)

SpecCurve == InitCurve /\ [][NextCurve]_vars

\* ------------------------------------------------------- batch operations
\* The user ids a request names: the users, and one id that no user has.
BatchIds == Subjects \cup {"carol"}

\* The user_ids lists submitted with target "specific".
BatchLists == {<< >>, <<"bob">>, <<"alice", "bob">>, <<"alice", "carol", "bob">>}

\* The amounts submitted: per kind, a well-formed one and malformed ones.
BatchAmounts == [points |-> {0, 100, 150}, xp |-> {0, 700}]

\* The users of the database, in id order.
AllUsers == SelectSeq(<<"alice", "bob">>, LAMBDA u : u \in DOMAIN points)

\* Validation of a request: the error it is refused with, "" when accepted.
batch_validate(amount, target, user_ids) ==
    IF amount <= 0 THEN "Invalid amount"
    ELSE IF target = "specific" /\ user_ids = << >> THEN "No user IDs provided"
    ELSE ""

\* Mutant of batch_tally: a failure is counted but its error is not kept.
batch_tally_DropsError(b, user_id, error) ==
    IF error = ""
    THEN [b EXCEPT !.success = @ + 1]
    ELSE [b EXCEPT !.failed = @ + 1]

\* The response after one more user: a success or a failure with its error.
batch_tally(b, user_id, error) ==
    IF error = ""
    THEN [b EXCEPT !.success = @ + 1]
    ELSE [b EXCEPT !.failed = @ + 1,
                   !.errors = Append(@, [user_id |-> user_id, error |-> error])]

\* Mutant of batch_advance: the first failure ends the iteration.
batch_advance_StopsOnError(b, error) ==
    IF error # "" \/ Tail(b.todo) = << >>
    THEN [b EXCEPT !.todo = << >>, !.pc = "done"]
    ELSE [b EXCEPT !.todo = Tail(@)]

\* The iteration moves to the next user, whatever the last one's outcome.
batch_advance(b, error) ==
    [b EXCEPT !.todo = Tail(@),
              !.pc = IF Tail(b.todo) = << >> THEN "done" ELSE "run"]

\* Mutant of BatchSubmit: the request is not validated.
BatchSubmit_NoValidation(kind, operation, amount, target, user_ids, allow_negative) ==
    /\ batch.pc # "run"
    /\ levelup.todo = << >>
    /\ LET subjects == IF target = "all" THEN AllUsers ELSE user_ids
           request == [NoBatch EXCEPT
                          !.kind = kind, !.operation = operation,
                          !.amount = amount, !.target = target,
                          !.user_ids = user_ids,
                          !.allow_negative = allow_negative,
                          !.points_before = points,
                          !.txs_before = Len(txs), !.xp_before = xp]
       IN  batch' = [request EXCEPT
                        !.pc = IF subjects = << >> THEN "done" ELSE "run",
                        !.todo = subjects,
                        !.total_users = Len(subjects)]
    /\ UNCHANGED <<redeemed, clientVars, ledgerVars, gateVars, queueVars, levelVars>>

\* POST /admin/api/users/batch-points and batch-xp: the request is validated
\* and, when well formed, the users to visit are resolved.
BatchSubmit(kind, operation, amount, target, user_ids, allow_negative) ==
    /\ batch.pc # "run"
    /\ levelup.todo = << >>
    /\ LET error == batch_validate(amount, target, user_ids)
           subjects == IF target = "all" THEN AllUsers ELSE user_ids
           request == [NoBatch EXCEPT
                          !.kind = kind, !.operation = operation,
                          !.amount = amount, !.target = target,
                          !.user_ids = user_ids,
                          !.allow_negative = allow_negative,
                          !.points_before = points,
                          !.txs_before = Len(txs), !.xp_before = xp]
       IN  batch' = IF error # ""
                    THEN [request EXCEPT !.pc = "rejected", !.ok = FALSE,
                                         !.error = error]
                    ELSE [request EXCEPT
                             !.pc = IF subjects = << >> THEN "done" ELSE "run",
                             !.todo = subjects,
                             !.total_users = Len(subjects)]
    /\ UNCHANGED <<redeemed, clientVars, ledgerVars, gateVars, queueVars, levelVars>>

\* batch_adjust_points, one user: PointsService.adjust with the signed
\* amount; an unknown user or a refused adjustment is recorded and the
\* iteration goes on.
BatchPointsItem ==
    /\ batch.pc = "run"
    /\ batch.kind = "points"
    /\ LET user_id == Head(batch.todo)
           delta == IF batch.operation = "add" THEN batch.amount
                    ELSE -batch.amount
       IN  IF user_id \notin DOMAIN points
           THEN /\ batch' = batch_advance(
                                batch_tally(batch, user_id, "User not found"),
                                "User not found")
                /\ UNCHANGED <<points, txs, overridden, result>>
           ELSE LET out == adjust(user_id, delta, "batch_admin",
                                  batch.allow_negative) IN
                /\ Commit(out)
                /\ result' = Call("adjust", user_id, delta,
                                  batch.allow_negative, out)
                /\ overridden' = IF batch.allow_negative /\ out.err = ""
                                 THEN overridden \cup {user_id} ELSE overridden
                /\ batch' = batch_advance(batch_tally(batch, user_id, out.err),
                                          out.err)
    /\ UNCHANGED <<redeemed, clientVars, sess, gateVars, queueVars, levelVars>>

\* batch_adjust_xp, one user: the XP operation with the signed amount; a
\* change of level is reported in level_ups.
BatchXpItem ==
    /\ batch.pc = "run"
    /\ batch.kind = "xp"
    /\ levelup.todo = << >>
    /\ LET user_id == Head(batch.todo)
           delta == IF batch.operation = "add" THEN batch.amount
                    ELSE -batch.amount
       IN  IF user_id \notin DOMAIN xp
           THEN /\ batch' = batch_advance(
                                batch_tally(batch, user_id, "User not found"),
                                "User not found")
                /\ UNCHANGED <<xp, levelup>>
           ELSE /\ apply_xp(user_id, delta)
                /\ batch' =
                      LET tallied == batch_advance(
                                         batch_tally(batch, user_id, ""), "")
                      IN  IF levelup'.level_after # levelup'.level_before
                          THEN [tallied EXCEPT !.level_ups =
                                   Append(@, [user_id |-> user_id,
                                              level_before |-> levelup'.level_before,
                                              level_after |-> levelup'.level_after])]
                          ELSE tallied
    /\ UNCHANGED <<redeemed, clientVars, curve, ledgerVars, gateVars, queueVars>>

\* Both users exist with their starting balance and an empty xp row; the
\* admin submits one batch after another.
InitBatch ==
    /\ points = [u \in Subjects |-> POINTS_START_AMOUNT]
    /\ txs = <<Transaction("alice", "grant", POINTS_START_AMOUNT, "start"),
               Transaction("bob", "grant", POINTS_START_AMOUNT, "start")>>
    /\ overridden = {}
    /\ result = NoCall
    /\ sess = [h \in Handlers |-> IdleSession]
    /\ InitGateVars
    /\ InitQueueVars
    /\ xp = [u \in Subjects |-> XpRow(0, 1)]
    /\ levelup = NoLevelUp
    /\ curve = Evaluated([base |-> XP_BASE, exponent |-> XP_EXPONENT],
                         XP_MAX_LEVEL, 0)
    /\ InitRequestVars

\* The requests of one kind that the admin submits.
Submit(kind) ==
    \E operation \in {"add", "subtract"}, amount \in BatchAmounts[kind],
       allow_negative \in IF kind = "points" THEN BOOLEAN ELSE {FALSE} :
        \/ BatchSubmit(kind, operation, amount, "all", << >>, allow_negative)
        \/ \E user_ids \in BatchLists :
              BatchSubmit(kind, operation, amount, "specific", user_ids,
                          allow_negative)

NextBatch ==
    \/ Submit("points")
    \/ BatchPointsItem

SpecBatch == InitBatch /\ [][NextBatch]_vars

NextBatchXp ==
    \/ Submit("xp")
    \/ BatchXpItem
    \/ LevelReward

SpecBatchXp == InitBatch /\ [][NextBatchXp]_vars

\* ----------------------------------------------------------------- redeems
\* The redeems table: tts and pixel with their default costs, sound switched
\* off. cooldown_s is scaled to the clock explored.
REDEEMS ==
    [k \in {"tts", "pixel", "sound"} |->
        IF k = "tts" THEN [enabled |-> TRUE, cost |-> 25, cooldown_s |-> 1]
        ELSE IF k = "pixel" THEN [enabled |-> TRUE, cost |-> 50, cooldown_s |-> 1]
        ELSE [enabled |-> FALSE, cost |-> 15, cooldown_s |-> 1]]

\* The keys asked for: the rows of the table, and one that has no row.
RedeemKeys == DOMAIN REDEEMS \cup {"nope"}

\* The cooldown key of a redeem.
redeem_key(key) == "redeem:" \o key

\* tts_service.pending_count()
pending_count(q) ==
    Cardinality({i \in DOMAIN q : q[i].kind = "tts" /\ q[i].status = "pending"})

\* queue.enqueue(kind, payload): the table with the new row.
enqueue(q, kind, payload) ==
    [i \in DOMAIN q \cup {NewId(q)} |->
        IF i \in DOMAIN q THEN q[i] ELSE QueueItem(kind, payload)]

\* What a redeem call returns and the state it leaves.
RedeemOutcome(ok, error, queue_id, pts, log, cd, q) ==
    [ok |-> ok, error |-> error, queue_id |-> queue_id,
     points |-> pts, txs |-> log, cooldowns |-> cd, queue_items |-> q]

\* Mutant of redeem: the points are spent before the cooldown is checked.
redeem_SpendsFirst(user_name, key, queue_kind, payload) ==
    IF key \notin DOMAIN REDEEMS \/ ~REDEEMS[key].enabled
    THEN RedeemOutcome(FALSE, "Redeem disabled", 0,
                       points, txs, cooldowns, queue_items)
    ELSE
    LET row == REDEEMS[key]
        spent == spend(user_name, row.cost, redeem_key(key))
    IN
    IF spent.err # ""
    THEN RedeemOutcome(FALSE, "Insufficient points", 0,
                       points, txs, cooldowns, queue_items)
    ELSE
    LET chk == is_active(cooldowns, now, user_name, redeem_key(key)) IN
    IF chk.active
    THEN RedeemOutcome(FALSE, "Cooldown: " \o ToString(chk.remaining) \o "s", 0,
                       spent.points, spent.txs, chk.cooldowns, queue_items)
    ELSE RedeemOutcome(TRUE, "",
                       IF queue_kind # "" THEN NewId(queue_items) ELSE 0,
                       spent.points, spent.txs,
                       IF row.cooldown_s > 0
                       THEN set(chk.cooldowns, now, user_name, redeem_key(key),
                                row.cooldown_s)
                       ELSE chk.cooldowns,
                       IF queue_kind # ""
                       THEN enqueue(queue_items, queue_kind, payload)
                       ELSE queue_items)

\* RedeemsService.redeem with cooldown_s=None (the row's value): the enabled
\* check, the cooldown check, the spend, the cooldown and the queue item.
redeem(user_name, key, queue_kind, payload) ==
    IF key \notin DOMAIN REDEEMS \/ ~REDEEMS[key].enabled
    THEN RedeemOutcome(FALSE, "Redeem disabled", 0,
                       points, txs, cooldowns, queue_items)
    ELSE
    LET row == REDEEMS[key]
        chk == is_active(cooldowns, now, user_name, redeem_key(key))
    IN
    IF chk.active
    THEN RedeemOutcome(FALSE, "Cooldown: " \o ToString(chk.remaining) \o "s", 0,
                       points, txs, chk.cooldowns, queue_items)
    ELSE
    LET spent == spend(user_name, row.cost, redeem_key(key)) IN
    IF spent.err # ""
    THEN RedeemOutcome(FALSE, "Insufficient points", 0,
                       points, txs, chk.cooldowns, queue_items)
    ELSE RedeemOutcome(TRUE, "",
                       IF queue_kind # "" THEN NewId(queue_items) ELSE 0,
                       spent.points, spent.txs,
                       IF row.cooldown_s > 0
                       THEN set(chk.cooldowns, now, user_name, redeem_key(key),
                                row.cooldown_s)
                       ELSE chk.cooldowns,
                       IF queue_kind # ""
                       THEN enqueue(queue_items, queue_kind, payload)
                       ELSE queue_items)

\* A redeem call and the commit of what it did.
Redeemed(user_name, key, queue_kind, payload) ==
    LET out == redeem(user_name, key, queue_kind, payload) IN
    /\ Len(out.txs) <= MaxTx
    /\ pending_count(out.queue_items) <= MaxPending
    /\ points' = out.points
    /\ txs' = out.txs
    /\ cooldowns' = out.cooldowns
    /\ queue_items' = out.queue_items
    /\ redeemed' = [op |-> "redeem", user_name |-> user_name, key |-> key,
                    at |-> now, ok |-> out.ok, error |-> out.error,
                    queue_id |-> out.queue_id]

\* A redeem without a queued effect (pixel, sound, an unknown key).
Redeem(user_name, key) ==
    /\ Redeemed(user_name, key, "", << >>)
    /\ UNCHANGED <<overridden, result, sess, now, verdict, lastAdmit, gate,
                   workers, utcnow, polled, delivered, levelVars, batch,
                   clientVars>>

\* Mutant of ChatTts: the queue is not checked before the redeem.
ChatTts_NoQueueCheck(user) ==
    /\ Redeemed(user, "tts", "tts", [user |-> user, prefix |-> TRUE])
    /\ UNCHANGED <<overridden, result, sess, now, verdict, lastAdmit, gate,
                   workers, utcnow, polled, delivered, levelVars, batch,
                   clientVars>>

\* on_chat, "!tts ...": refused when the queue is full, otherwise the tts
\* redeem with its queue item.
ChatTts(user) ==
    /\ IF pending_count(queue_items) >= TTS_QUEUE_MAX
       THEN /\ redeemed' = [NoRedeem EXCEPT !.op = "queue_full",
                                            !.user_name = user, !.at = now]
            /\ UNCHANGED <<points, txs, cooldowns, queue_items>>
       ELSE Redeemed(user, "tts", "tts", [user |-> user, prefix |-> TRUE])
    /\ UNCHANGED <<overridden, result, sess, now, verdict, lastAdmit, gate,
                   workers, utcnow, polled, delivered, levelVars, batch,
                   clientVars>>

\* handle_pixel_redeem, after the AI answered: db.add(QueueItem(kind="tts",
\* ...)) and db.commit().
PixelTts ==
    /\ pending_count(queue_items) < MaxPending
    /\ queue_items' = enqueue(queue_items, "tts",
                              [user |-> "pixel", prefix |-> FALSE])
    /\ redeemed' = NoRedeem
    /\ UNCHANGED <<ledgerVars, gateVars, workers, utcnow, polled, delivered,
                   levelVars, batch,
                   clientVars>>

\* Both users exist with their starting balance.
InitRedeem ==
    /\ points = [u \in Subjects |-> POINTS_START_AMOUNT]
    /\ txs = <<Transaction("alice", "grant", POINTS_START_AMOUNT, "start"),
               Transaction("bob", "grant", POINTS_START_AMOUNT, "start")>>
    /\ overridden = {}
    /\ result = NoCall
    /\ sess = [h \in Handlers |-> IdleSession]
    /\ InitGateVars
    /\ InitRest

NextRedeem ==
    \/ Tick
    \/ \E u \in Subjects, k \in RedeemKeys \ {"tts"} : Redeem(u, k)
    \/ \E u \in Subjects : ChatTts(u)

SpecRedeem == InitRedeem /\ [][NextRedeem]_vars

\* The tts redeem of on_chat when queue.enqueue raises (the database refuses
\* the insert): points.spend has committed the deduction and cooldowns.set
\* has run, the exception leaves redeem, no row is added and no result is
\* returned.
ChatTtsEnqueueRaises(user) ==
    LET out == redeem(user, "tts", "tts", [user |-> user, prefix |-> TRUE]) IN
    /\ pending_count(queue_items) < TTS_QUEUE_MAX
    /\ out.ok
    /\ Len(out.txs) <= MaxTx
    /\ points' = out.points
    /\ txs' = out.txs
    /\ cooldowns' = out.cooldowns
    /\ redeemed' = [op |-> "redeem", user_name |-> user, key |-> "tts",
                    at |-> now, ok |-> FALSE, error |-> "SQLAlchemyError",
                    queue_id |-> 0]
    /\ UNCHANGED <<queue_items, overridden, result, sess, now, verdict,
                   lastAdmit, gate, workers, utcnow, polled, delivered,
                   levelVars, batch,
                   clientVars>>

\* Redeems of tts from chat, with a database that may refuse the insert of
\* the queue item.
NextRedeemFaults ==
    \/ Tick
    \/ \E u \in Subjects : ChatTts(u)
    \/ \E u \in Subjects : ChatTtsEnqueueRaises(u)

SpecRedeemFaults == InitRedeem /\ [][NextRedeemFaults]_vars

\* The producers of tts items side by side: chat redeems and AI answers.
NextProducers ==
    \/ \E u \in Subjects : ChatTts(u)
    \/ PixelTts

SpecProducers == InitRedeem /\ [][NextProducers]_vars

\* --------------------------------------- the platform client's reconnect loop
Min(a, b) == IF a <= b THEN a ELSE b

\* Mutant of next_backoff: the doubling is not capped.
next_backoff_NoCap(backoff) == backoff * 2

\* backoff = min(30.0, backoff * 2)
next_backoff(backoff) == Min(BACKOFF_MAX, backoff * 2)

\* websockets.connect(url) succeeds: backoff = 1.0, and the messages are
\* handled.
ConnectOk ==
    /\ joystick.pc = "connecting" /\ ~joystick.stopped
    /\ joystick' = [joystick EXCEPT !.pc = "connected", !.backoff = BACKOFF_START]
    /\ UNCHANGED <<ext, tabs, page, botVars>>

\* websockets.connect(url), or the handling of the messages, raises: the
\* except branch starts asyncio.sleep(backoff).
ConnectionRaises ==
    /\ joystick.pc \in {"connecting", "connected"} /\ ~joystick.stopped
    /\ joystick' = [joystick EXCEPT !.pc = "sleeping",
                                    !.remaining = joystick.backoff]
    /\ UNCHANGED <<ext, tabs, page, botVars>>

\* The connection ends without an exception: the with block is left and the
\* loop starts over.
ConnectionEnds ==
    /\ joystick.pc = "connected"
    /\ joystick' = [joystick EXCEPT !.pc = "connecting"]
    /\ UNCHANGED <<ext, tabs, page, botVars>>

\* A second of asyncio.sleep(backoff) passes.
Sleeping ==
    /\ joystick.pc = "sleeping" /\ joystick.remaining > 0
    /\ joystick' = [joystick EXCEPT !.remaining = @ - 1]
    /\ UNCHANGED <<ext, tabs, page, botVars>>

\* asyncio.sleep(backoff) returns: backoff = min(30.0, backoff * 2), and the
\* loop starts over.
Wake ==
    /\ joystick.pc = "sleeping" /\ joystick.remaining = 0
    /\ joystick' = [joystick EXCEPT !.pc = "connecting",
                                    !.backoff = next_backoff(joystick.backoff)]
    /\ UNCHANGED <<ext, tabs, page, botVars>>

\* joystick_client.stop(): the loop ends at its next `while not stopped`.
Stop ==
    /\ ~joystick.stopped
    /\ joystick' = [joystick EXCEPT !.stopped = TRUE]
    /\ UNCHANGED <<ext, tabs, page, botVars>>

InitClients ==
    /\ points = << >>
    /\ txs = << >>
    /\ overridden = {}
    /\ result = NoCall
    /\ sess = [h \in Handlers |-> IdleSession]
    /\ InitGateVars
    /\ InitRest

NextJoystick ==
    \/ ConnectOk
    \/ ConnectionRaises
    \/ ConnectionEnds
    \/ Sleeping
    \/ Wake
    \/ Stop

SpecJoystick == InitClients /\ [][NextJoystick]_vars

\* ------------------------------------------ the extension: background.js
\* event.data of the frames the bot sends.
Frames ==
    {"not json", "null", "{\"type\":\"pong\"}", "{\"action\":\"click_tip\"}",
     "{\"action\":\"other\"}", "{\"type\":\"pong\",\"action\":\"click_tip\"}"}

\* JSON.parse(event.data): `ok` is FALSE when it throws; `object` is FALSE
\* for null; `type` and `action` are the members read by the handler ("" when
\* undefined).
JSON_parse(raw) ==
    IF raw = "null"
    THEN [ok |-> TRUE, object |-> FALSE, type |-> "", action |-> ""]
    ELSE IF raw = "{\"type\":\"pong\"}"
    THEN [ok |-> TRUE, object |-> TRUE, type |-> "pong", action |-> ""]
    ELSE IF raw = "{\"action\":\"click_tip\"}"
    THEN [ok |-> TRUE, object |-> TRUE, type |-> "", action |-> "click_tip"]
    ELSE IF raw = "{\"action\":\"other\"}"
    THEN [ok |-> TRUE, object |-> TRUE, type |-> "", action |-> "other"]
    ELSE IF raw = "{\"type\":\"pong\",\"action\":\"click_tip\"}"
    THEN [ok |-> TRUE, object |-> TRUE, type |-> "pong", action |-> "click_tip"]
    ELSE [ok |-> FALSE, object |-> FALSE, type |-> "", action |-> ""]

NothingSent == [t \in Tabs |-> 0]

\* Mutant of onmessage: the message goes to one joystick.tv tab only.
onmessage_OneTabOnly(raw, open) ==
    LET data == JSON_parse(raw)
        found == {t \in Tabs : open[t] = "joystick"}
    IN  IF ~data.ok \/ ~data.object THEN NothingSent
        ELSE IF data.type = "pong" THEN NothingSent
        ELSE IF data.action = "click_tip" /\ found # {}
        THEN [t \in Tabs |-> IF t = CHOOSE f \in found : TRUE THEN 1 ELSE 0]
        ELSE NothingSent

\* ws.onmessage for the frame `raw` with the tabs `open`: the number of
\* chrome.tabs.sendMessage(tab.id, {action: 'click_tip'}) calls per tab. A
\* frame that is not JSON returns early; null makes data.type throw; pong
\* returns early; click_tip queries the tabs whose url matches
\* *://joystick.tv/* and sends to each of them.
onmessage(raw, open) ==
    LET data == JSON_parse(raw)
        found == {t \in Tabs : open[t] = "joystick"}
    IN  IF ~data.ok \/ ~data.object THEN NothingSent
        ELSE IF data.type = "pong" THEN NothingSent
        ELSE IF data.action = "click_tip"
        THEN [t \in Tabs |-> IF t \in found THEN 1 ELSE 0]
        ELSE NothingSent

\* The handle the browser gives a new timer.
NewHandle(timers) == CHOOSE h \in 1..MaxTimers : h \notin DOMAIN timers

Without(timers, h) == [k \in DOMAIN timers \ {h} |-> timers[k]]

With(timers, h, seconds) ==
    [k \in DOMAIN timers \cup {h} |-> IF k = h THEN seconds ELSE timers[k]]

Event(op) == [NoEvent EXCEPT !.op = op]

\* The socket opens: ws.onopen starts the ping interval.
WsOpen ==
    /\ ext.ws = "CONNECTING"
    /\ Cardinality(DOMAIN ext.intervals) < MaxTimers
    /\ LET h == NewHandle(ext.intervals) IN
       ext' = [ext EXCEPT !.ws = "OPEN",
                          !.intervals = With(ext.intervals, h, PING_EVERY),
                          !.pingInterval = h,
                          !.last = Event("open")]
    /\ UNCHANGED <<joystick, tabs, page, botVars>>

\* A message of the bot arrives: ws.onmessage and the callback of
\* chrome.tabs.query.
WsMessage(raw) ==
    /\ ext.ws = "OPEN"
    /\ ext' = [ext EXCEPT !.last = [op |-> "message", raw |-> raw,
                                    pinged |-> FALSE,
                                    sent |-> onmessage(raw, tabs)]]
    /\ UNCHANGED <<joystick, tabs, page, botVars>>

\* Mutant of WsError: the error handler schedules a reconnect of its own.
WsError_Reconnects ==
    /\ ext.ws \in {"CONNECTING", "OPEN"}
    /\ Cardinality(DOMAIN ext.timeouts) < MaxTimers
    /\ ext' = [ext EXCEPT !.timeouts = With(ext.timeouts, NewHandle(ext.timeouts),
                                            RECONNECT_DELAY),
                          !.last = Event("error")]
    /\ UNCHANGED <<joystick, tabs, page, botVars>>

\* ws.onerror: the error is logged.
WsError ==
    /\ ext.ws \in {"CONNECTING", "OPEN"}
    /\ ext' = [ext EXCEPT !.last = Event("error")]
    /\ UNCHANGED <<joystick, tabs, page, botVars>>

\* Mutant of WsClose: a socket that never opened is not replaced.
WsClose_OpenedOnly ==
    /\ ext.ws \in {"CONNECTING", "OPEN"}
    /\ Cardinality(DOMAIN ext.timeouts) < MaxTimers
    /\ ext' = [ext EXCEPT
                  !.ws = "CLOSED",
                  !.live = @ - 1,
                  !.intervals = IF ext.pingInterval # 0
                                THEN Without(ext.intervals, ext.pingInterval)
                                ELSE ext.intervals,
                  !.pingInterval = 0,
                  !.timeouts = IF ext.pingInterval # 0
                               THEN With(ext.timeouts, NewHandle(ext.timeouts),
                                         RECONNECT_DELAY)
                               ELSE ext.timeouts,
                  !.last = Event("close")]
    /\ UNCHANGED <<joystick, tabs, page, botVars>>

\* The socket closes, opened or not: ws.onclose clears the ping interval
\* when there is one and sets the reconnect timer.
WsClose ==
    /\ ext.ws \in {"CONNECTING", "OPEN"}
    /\ Cardinality(DOMAIN ext.timeouts) < MaxTimers
    /\ ext' = [ext EXCEPT
                  !.ws = "CLOSED",
                  !.live = @ - 1,
                  !.intervals = IF ext.pingInterval # 0
                                THEN Without(ext.intervals, ext.pingInterval)
                                ELSE ext.intervals,
                  !.pingInterval = 0,
                  !.timeouts = With(ext.timeouts, NewHandle(ext.timeouts),
                                    RECONNECT_DELAY),
                  !.last = Event("close")]
    /\ UNCHANGED <<joystick, tabs, page, botVars>>

\* The reconnect timer h fires: connect() makes a new socket.
ReconnectFires(h) ==
    /\ h \in DOMAIN ext.timeouts
    /\ ext.timeouts[h] = 0
    /\ ext' = [ext EXCEPT !.timeouts = Without(ext.timeouts, h),
                          !.ws = "CONNECTING",
                          !.live = @ + 1,
                          !.last = Event("connect")]
    /\ UNCHANGED <<joystick, tabs, page, botVars>>

\* The ping interval h fires: a ping is sent when ws is OPEN.
PingFires(h) ==
    /\ h \in DOMAIN ext.intervals
    /\ ext.intervals[h] = 0
    /\ ext' = [ext EXCEPT !.intervals[h] = PING_EVERY,
                          !.last = [Event("ping") EXCEPT
                                       !.pinged = (ext.ws = "OPEN")]]
    /\ UNCHANGED <<joystick, tabs, page, botVars>>

\* A second passes for the timers that are set; a timer that is due fires
\* first.
ExtTick ==
    /\ DOMAIN ext.intervals \cup DOMAIN ext.timeouts # {}
    /\ \A h \in DOMAIN ext.intervals : ext.intervals[h] > 0
    /\ \A h \in DOMAIN ext.timeouts : ext.timeouts[h] > 0
    /\ ext' = [ext EXCEPT
                  !.intervals = [h \in DOMAIN ext.intervals |-> ext.intervals[h] - 1],
                  !.timeouts = [h \in DOMAIN ext.timeouts |-> ext.timeouts[h] - 1],
                  !.last = Event("tick")]
    /\ UNCHANGED <<joystick, tabs, page, botVars>>

\* The user opens, navigates or closes a tab.
TabChange(t, kind) ==
    /\ tabs[t] # kind
    /\ tabs' = [tabs EXCEPT ![t] = kind]
    /\ UNCHANGED <<joystick, ext, page, botVars>>

NextExt ==
    \/ WsOpen
    \/ \E raw \in Frames : WsMessage(raw)
    \/ WsError
    \/ WsClose
    \/ \E h \in 1..MaxTimers : ReconnectFires(h)
    \/ \E h \in 1..MaxTimers : PingFires(h)
    \/ ExtTick
    \/ \E t \in Tabs, kind \in {"closed", "joystick", "other"} : TabChange(t, kind)

SpecExt == InitClients /\ [][NextExt]_vars

\* The timers of the browser fire when they are due, and time passes.
SpecExtLive ==
    /\ InitClients /\ [][NextExt]_vars
    /\ WF_vars(ExtTick)
    /\ WF_vars(\E h \in 1..MaxTimers : ReconnectFires(h))
    /\ WF_vars(\E h \in 1..MaxTimers : PingFires(h))

\* --------------------------------------------- the extension: content.js
\* document.querySelector('button.lv-send-button') and what the callback
\* reads of it: found, offsetWidth > 0 && offsetHeight > 0, !disabled.
Buttons ==
    {[found |-> FALSE, visible |-> FALSE, enabled |-> FALSE]}
    \cup [found : {TRUE}, visible : BOOLEAN, enabled : BOOLEAN]

\* request.action of the messages the content script gets.
Requests == {"click_tip", "other"}

\* A message as the listener leaves it: for click_tip the 100 ms timer is set
\* and the listener returns true; for anything else it does nothing.
Received(action) ==
    [action |-> action,
     timer |-> IF action = "click_tip" THEN "set" ELSE "none",
     seen |-> [found |-> FALSE, visible |-> FALSE, enabled |-> FALSE],
     clicks |-> 0, responses |-> << >>]

\* Mutant of click_callback: a disabled button is clicked too.
click_callback_IgnoresDisabled(msg, btn) ==
    IF btn.found
    THEN IF btn.visible
         THEN [msg EXCEPT !.timer = "fired", !.seen = btn, !.clicks = @ + 1,
                          !.responses = Append(@, [success |-> TRUE, reason |-> ""])]
         ELSE [msg EXCEPT !.timer = "fired", !.seen = btn,
                          !.responses = Append(@, [success |-> FALSE,
                                                   reason |-> "not clickable"])]
    ELSE [msg EXCEPT !.timer = "fired", !.seen = btn,
                     !.responses = Append(@, [success |-> FALSE,
                                              reason |-> "not found"])]

\* The callback of setTimeout(..., 100) for the message msg, with the button
\* btn in the page: the click and the response.
click_callback(msg, btn) ==
    IF btn.found
    THEN IF btn.visible /\ btn.enabled
         THEN [msg EXCEPT !.timer = "fired", !.seen = btn, !.clicks = @ + 1,
                          !.responses = Append(@, [success |-> TRUE, reason |-> ""])]
         ELSE [msg EXCEPT !.timer = "fired", !.seen = btn,
                          !.responses = Append(@, [success |-> FALSE,
                                                   reason |-> "not clickable"])]
    ELSE [msg EXCEPT !.timer = "fired", !.seen = btn,
                     !.responses = Append(@, [success |-> FALSE,
                                              reason |-> "not found"])]

\* chrome.runtime.onMessage: the listener runs for a message.
ContentMessage(action) ==
    /\ Len(page.msgs) < MaxMsgs
    /\ page' = [page EXCEPT !.msgs = Append(@, Received(action))]
    /\ UNCHANGED <<joystick, ext, tabs, botVars>>

\* The 100 ms timer of message i fires.
ContentTimer(i) ==
    /\ i \in DOMAIN page.msgs
    /\ page.msgs[i].timer = "set"
    /\ page' = [page EXCEPT !.msgs[i] = click_callback(page.msgs[i], page.button)]
    /\ UNCHANGED <<joystick, ext, tabs, botVars>>

\* The page changes its send button.
ButtonChange(btn) ==
    /\ page.button # btn
    /\ page' = [page EXCEPT !.button = btn]
    /\ UNCHANGED <<joystick, ext, tabs, botVars>>

NextContent ==
    \/ \E action \in Requests : ContentMessage(action)
    \/ \E i \in 1..MaxMsgs : ContentTimer(i)
    \/ \E btn \in Buttons : ButtonChange(btn)

SpecContent == InitClients /\ [][NextContent]_vars


\* ------------------------------------------------------------------ claims

\* C1: in every state reached by ensure_user, grant, spend and adjust, each
\* user's balance equals the sum of the deltas of that user's transactions.
BalanceConservation ==
    \A u \in Subjects : get_balance(u) = SumDeltas(txs, u)

\* A user with a starting grant, a chat grant and a spend on record.
BalanceConservationWitness ==
    \E u \in DOMAIN points :
        /\ points[u] = POINTS_START_AMOUNT + POINTS_CHAT_AMOUNT - 50
        /\ \E i, j \in 1..Len(txs) :
              /\ txs[i].user_id = u /\ txs[i].type = "grant" /\ txs[i].reason = "chat"
              /\ txs[j].user_id = u /\ txs[j].type = "spend"

\* C2: a spend of more than the balance fails with "Insufficient points" and
\* leaves the points table and the transactions table exactly as they were.
SpendRejectionUnchanged ==
    [][(result'.op = "spend" /\ get_balance(result'.user_id) < result'.amount)
          => /\ result'.err = "Insufficient points"
             /\ points' = points
             /\ txs' = txs]_vars

\* spend(u, 1000) was just rejected on a balance of 50.
SpendRejectionWitness ==
    /\ result.op = "spend" /\ result.amount = 1000
    /\ result.err = "Insufficient points"
    /\ result.user_id \in DOMAIN points
    /\ points[result.user_id] = 50
    /\ Len(txs) = 2

\* C3: a balance is negative only for a user to whom an adjust with
\* allow_negative_balance=True has been applied.
NonNegativeUnlessOverride ==
    \A u \in DOMAIN points : points[u] < 0 => u \in overridden

\* A user without override was just refused a spend or an adjust that would
\* have taken the balance below zero, while another balance is negative by
\* override.
NonNegativeWitness ==
    /\ result.op \in {"spend", "adjust"}
    /\ result.err = "Insufficient points"
    /\ result.user_id \in DOMAIN points \ overridden
    /\ \E v \in overridden : points[v] < 0

\* C4: adjust with allow_negative_balance=False whose result would be
\* negative fails with "Insufficient points" and changes neither table; with
\* allow_negative_balance=True the call succeeds and the balance becomes the
\* old balance plus delta.
AdjustContract ==
    [][result'.op = "adjust" =>
          LET u == result'.user_id
              new == points[u] + result'.amount
          IN  IF new < 0 /\ ~result'.allow
              THEN /\ result'.err = "Insufficient points"
                   /\ points' = points
                   /\ txs' = txs
              ELSE /\ result'.err = ""
                   /\ result'.ret = new
                   /\ points' = [points EXCEPT ![u] = new]]_vars

\* An adjust with the override just took a balance below zero.
AdjustContractWitness ==
    /\ result.op = "adjust" /\ result.allow /\ result.err = ""
    /\ points[result.user_id] < 0

AtomicCommit ==
    [][\A u \in Subjects :
          get_balance(u)' - get_balance(u)
              = SumDeltas(txs, u)' - SumDeltas(txs, u)]_vars

\* A spend was rolled back after its debit and before its transaction was
\* added, and the user's balance is still the starting balance.
AtomicCommitWitness ==
    /\ result.op = "spend" /\ result.err = "rollback"
    /\ sess["h1"].aborted = "add"
    /\ points[result.user_id] = POINTS_START_AMOUNT

\* C7: once no call is in flight, each balance is the starting balance plus
\* the deltas of the calls that succeeded (each of which is on record in the
\* transactions table).
NoLostUpdate ==
    (\A h \in Handlers : sess[h].pc = "idle")
        => \A u \in Subjects : get_balance(u) = SumDeltas(txs, u)

\* C8: while a cooldown set at time t for duration d is running, that is at
\* every time in [t, t+d), every further check of the same (user, key) is
\* rejected.
NoDoubleAdmit ==
    [][\A e \in Entries :
          (/\ verdict'.op = "admit" /\ verdict'.entry = e
           /\ lastAdmit[e].t >= 0
           /\ lastAdmit[e].t <= verdict'.at
           /\ verdict'.at < lastAdmit[e].t + lastAdmit[e].d * TicksPerSec)
          => ~verdict'.admitted]_vars

\* A check strictly inside a running cooldown was just rejected, while the
\* same user's other key was never set.
NoDoubleAdmitWitness ==
    /\ verdict.op = "admit" /\ ~verdict.admitted
    /\ lastAdmit[verdict.entry].t >= 0
    /\ verdict.at > lastAdmit[verdict.entry].t
    /\ \E e \in Entries : e[1] = verdict.entry[1] /\ lastAdmit[e] = NeverSet

\* C9 (as claimed): of two on_chat handlers running at the same time for the
\* same user, at most one is admitted and rewarded, so a user has at most one
\* chat grant on record within one cooldown period (the clock of the model
\* ends before POINTS_CHAT_COOLDOWN_SECONDS have passed).
SingleChatReward ==
    \A u \in Subjects :
        Cardinality({i \in 1..Len(txs) :
                        txs[i].user_id = u /\ txs[i].reason = "chat"}) <= 1

\* C10: after a cooldown set at time t for duration d, a check at a time
\* before t+d is rejected with the whole seconds left until t+d, and a check
\* at any time from t+d on is admitted.
CooldownWindow ==
    [][\A e \in Entries :
          (/\ verdict'.op = "admit" /\ verdict'.entry = e
           /\ lastAdmit[e].t >= 0
           /\ lastAdmit[e].t <= verdict'.at)
          => LET left == lastAdmit[e].t + lastAdmit[e].d * TicksPerSec
                            - verdict'.at
             IN  IF left > 0
                 THEN /\ ~verdict'.admitted
                      /\ verdict'.remaining * TicksPerSec <= left
                      /\ left < (verdict'.remaining + 1) * TicksPerSec
                 ELSE verdict'.admitted]_vars

\* A check was just rejected with 1 second remaining, a second and a half
\* before the expiry.
CooldownWindowWitness ==
    /\ verdict.op = "admit" /\ ~verdict.admitted
    /\ verdict.remaining = 1
    /\ cooldowns[verdict.entry] - verdict.at = TicksPerSec + 1

\* C11: a rejected admission leaves the cooldown store as it was: the expiry
\* of the checked (user, key) is not moved and no other entry changes, so
\* the time at which the user is admitted again stays where it was.
RejectedLeavesStore ==
    [][(verdict'.op = "admit" /\ ~verdict'.admitted)
          => /\ cooldowns' = cooldowns
             /\ lastAdmit' = lastAdmit]_vars

\* A check was just rejected, after the instant the cooldown was set, while
\* another entry is in the store too; the expiry is still the one set.
RejectedLeavesStoreWitness ==
    /\ verdict.op = "admit" /\ ~verdict.admitted
    /\ verdict.at > lastAdmit[verdict.entry].t
    /\ Cardinality(DOMAIN cooldowns) >= 2
    /\ cooldowns[verdict.entry]
          = lastAdmit[verdict.entry].t + lastAdmit[verdict.entry].d * TicksPerSec

\* C12: every status change of a queue item is one of pending -> running,
\* running -> done, running -> failed.
LegalStatusChanges ==
    {<<"pending", "running">>, <<"running", "done">>, <<"running", "failed">>}

ForwardOnlyStatus ==
    [][\A i \in DOMAIN queue_items \cap DOMAIN queue_items' :
          queue_items'[i].status # queue_items[i].status
              => <<queue_items[i].status, queue_items'[i].status>>
                     \in LegalStatusChanges]_vars

\* C13: at most one item of each queue kind is running, also when several
\* queue workers poll the same kind at the same time.
OneRunningPerKind ==
    \A k \in QueueKinds :
        Cardinality({i \in DOMAIN queue_items :
                        queue_items[i].kind = k
                        /\ queue_items[i].status = "running"}) <= 1

\* C14: within a kind, items are taken and delivered in creation order, which
\* is the order of their ids: an item is never claimed while an older item of
\* its kind is still pending, and each delivery is of a later item than the
\* delivery before it.
FifoDelivery ==
    [][/\ \A i \in DOMAIN queue_items \cap DOMAIN queue_items' :
             (queue_items[i].status = "pending"
              /\ queue_items'[i].status = "running")
                 => \A j \in DOMAIN queue_items :
                        (j < i /\ queue_items[j].kind = queue_items[i].kind)
                            => queue_items[j].status # "pending"
       /\ \A k \in QueueKinds :
             delivered'[k] # delivered[k] => delivered'[k] > delivered[k]]_vars

\* The second clip item is being executed after the first one was done, and
\* a third one is waiting.
FifoDeliveryWitness ==
    /\ DOMAIN queue_items = {1, 2, 3}
    /\ \A i \in DOMAIN queue_items : queue_items[i].kind = "clip"
    /\ queue_items[1].status = "done"
    /\ queue_items[2].status = "running"
    /\ queue_items[3].status = "pending"
    /\ delivered["clip"] = 2

\* C15: two-phase delivery of a tts item. A poll that finds no running item
\* sets the first pending item running, records primed_at and returns
\* nothing; a poll before primed_at + TTS_PRE_DELAY returns nothing and
\* leaves the running item as it is; a poll from then on returns the built
\* text and sets the item done.
TwoPhaseDelivery ==
    [][polled'.op = "next_plain" =>
          LET running == {i \in DOMAIN queue_items :
                             queue_items[i].kind = "tts"
                             /\ queue_items[i].status = "running"}
              first == FirstWith(queue_items, "tts", "pending")
          IN  /\ \A i \in running :
                    IF utcnow < queue_items[i].primed_at + TTS_PRE_DELAY
                    THEN /\ polled'.ret = << >>
                         /\ queue_items' = queue_items
                    ELSE /\ polled'.ret = build_text(queue_items[i].payload)
                         /\ polled'.ret # << >>
                         /\ queue_items'[i].status = "done"
              /\ (running = {} /\ first # 0)
                    => /\ polled'.ret = << >>
                       /\ queue_items'[first].status = "running"
                       /\ queue_items'[first].primed_at = utcnow]_vars

\* A poll has just returned "Alice said: Hello" for an item primed exactly
\* TTS_PRE_DELAY earlier, which is now done, while a second item waits.
TwoPhaseDeliveryWitness ==
    /\ polled.op = "next_plain"
    /\ polled.ret = <<"Alice", "said:", "Hello">>
    /\ queue_items[polled.item].status = "done"
    /\ polled.at = queue_items[polled.item].primed_at + TTS_PRE_DELAY
    /\ FirstWith(queue_items, "tts", "pending") # 0

\* C16: an item that has been running for longer than the timeout is one the
\* stuck-item reset finds (its query selects the item, so that it is marked
\* failed), and the queue is not wedged behind it: while an item of its kind
\* is pending, the processor of the kind has a step to take.
Stalled(i) ==
    /\ queue_items[i].status = "running"
    /\ queue_items[i].claimed_at # NULL
    /\ queue_items[i].claimed_at < utcnow - STUCK_AFTER

StalledItemRecovered ==
    \A i \in DOMAIN queue_items :
        Stalled(i) =>
            /\ queue_items[i].started_at # NULL
            /\ queue_items[i].started_at < utcnow - STUCK_AFTER
            /\ FirstWith(queue_items, queue_items[i].kind, "pending") # 0
                  => ENABLED Drain(queue_items[i].kind)

\* C17: when the effect of an item throws, the error is caught, the item
\* becomes failed and the processor goes on with the next pending item: the
\* task that runs the queue is never ended by it (which would leave the
\* item running and the items behind it pending).
ExecutorErrorIsolated ==
    \A w \in QueueWorkers :
        workers[w].error = "effect" => workers[w].pc # "dead"

\* C18: an XP award that raises a user from level_before to level_after
\* invokes the reward rule once for every level of
\* level_before+1 .. level_after, in ascending order, and for no other.
CascadingRewards ==
    /\ \A k \in 1..Len(levelup.calls) :
          levelup.calls[k] = levelup.level_before + k
    /\ Len(levelup.calls) + Len(levelup.todo)
          = IF levelup.level_after > levelup.level_before
            THEN levelup.level_after - levelup.level_before ELSE 0

\* One award took a user from level 1 to level 4 and the rules of levels 2,
\* 3 and 4 were invoked in that order; the level 3 bonus is on record.
CascadingRewardsWitness ==
    /\ levelup.level_before = 1 /\ levelup.level_after = 4
    /\ levelup.todo = << >>
    /\ levelup.calls = <<2, 3, 4>>
    /\ \E i \in 1..Len(txs) :
          txs[i].user_id = levelup.user_id /\ txs[i].reason = "level_3"

\* C19: with base 100 and exponent 1.8, xp_for_level(2) = 100 and
\* level_from_xp(150) = 2.
CurveExample ==
    (/\ curve.base = 100 /\ curve.exponent = 18
     /\ curve.max_level = XP_MAX_LEVEL
     /\ curve.total_xp = 150)
        => /\ xp_for_level(2, curve.base, curve.exponent) = 100
           /\ curve.level = 2

\* C20: level_from_xp is non-decreasing in total_xp: evaluated again for a
\* total_xp at least as large, with the same base, exponent and max_level, it
\* gives a level at least as large.
LevelMonotone ==
    [][(/\ curve'.base = curve.base
        /\ curve'.exponent = curve.exponent
        /\ curve'.max_level = curve.max_level
        /\ curve.total_xp <= curve'.total_xp)
          => curve.level <= curve'.level]_vars

\* The default curve was evaluated exactly at the total at which level 3
\* starts.
LevelMonotoneWitness ==
    /\ curve.base = XP_BASE /\ curve.exponent = XP_EXPONENT
    /\ curve.max_level = XP_MAX_LEVEL
    /\ curve.level = 3
    /\ curve.total_xp = xp_for_level(3, XP_BASE, XP_EXPONENT)

\* C21: for total_xp >= 0, level_from_xp(total_xp) lies between 1 and
\* max_level and is the largest such level whose cumulative requirement
\* xp_for_level does not exceed total_xp (the loop has ended with a value).
LargestLevelWithin ==
    curve.total_xp >= 0 =>
        /\ curve.level \in 1..curve.max_level
        /\ xp_for_level(curve.level, curve.base, curve.exponent) <= curve.total_xp
        /\ \A L \in 1..Len(POW_1_8_TIMES_100) :
              (/\ L <= curve.max_level
               /\ xp_for_level(L, curve.base, curve.exponent) <= curve.total_xp)
                  => L <= curve.level

\* C21 case: a total that meets a level's threshold exactly, and a total
\* past the threshold of a level above max_level.
LargestLevelWithinWitness ==
    /\ curve.total_xp > 0
    /\ curve.level >= 2
    /\ \/ xp_for_level(curve.level, curve.base, curve.exponent) = curve.total_xp
       \/ /\ curve.level = curve.max_level
          /\ curve.xp_for_next <= curve.total_xp

\* C22: an XP operation with a negative delta enters no reward rule (the
\* reward loop has nothing to visit) and leaves the points balances, the
\* points transaction log and the effect queue as they were, whether or
\* not the level went down.
NegativeDeltaKeepsRewards ==
    [][levelup'.delta < 0 =>
          /\ levelup'.todo = << >>
          /\ levelup'.calls = << >>
          /\ levelup'.reward_actions = << >>
          /\ UNCHANGED <<points, txs, queue_items>>]_vars

\* C22 case: a negative delta has taken a user who was paid the level-3
\* points reward back below level 3, and the reward is still theirs.
NegativeDeltaKeepsRewardsWitness ==
    /\ levelup.delta < 0
    /\ levelup.level_after < levelup.level_before
    /\ levelup.level_after < 3
    /\ \E k \in DOMAIN txs :
          /\ txs[k].user_id = levelup.user_id
          /\ txs[k].reason = "level_3"
    /\ points[levelup.user_id] = POINTS_START_AMOUNT + LEVEL_REWARDS[3].points

\* C23: in every state each user's stored level is level_from_xp of the
\* stored total_xp and is at least 1, and a step lowers a user's total_xp
\* only when it is an XP operation on that user with a negative delta.
LevelDerivedFromXp ==
    [][/\ \A u \in DOMAIN xp :
             /\ xp[u].level = level_from_xp(xp[u].total_xp, XP_BASE,
                                            XP_EXPONENT, XP_MAX_LEVEL)
             /\ xp[u].level >= 1
       /\ \A u \in DOMAIN xp' :
             /\ xp'[u].level = level_from_xp(xp'[u].total_xp, XP_BASE,
                                             XP_EXPONENT, XP_MAX_LEVEL)
             /\ xp'[u].level >= 1
       /\ \A u \in DOMAIN xp \cap DOMAIN xp' :
             xp'[u].total_xp < xp[u].total_xp
                 => /\ levelup'.user_id = u
                    /\ levelup'.delta < 0]_vars

\* C23 case: after awards and a correction a user stands at a lower level
\* than before, above level 1, and the other user has gained XP too.
LevelDerivedFromXpWitness ==
    /\ levelup.delta < 0
    /\ levelup.level_after < levelup.level_before
    /\ xp[levelup.user_id].level = levelup.level_after
    /\ xp[levelup.user_id].level >= 2
    /\ \E u \in DOMAIN xp : u # levelup.user_id /\ xp[u].level >= 2

\* The users a batch visits, in order, and how many it has visited so far.
BatchSubjects ==
    IF batch.target = "all"
    THEN SelectSeq(<<"alice", "bob">>, LAMBDA u : u \in DOMAIN batch.points_before)
    ELSE batch.user_ids

BatchVisited == Len(BatchSubjects) - Len(batch.todo)

\* The rows a batch has added to the transaction log for a user.
BatchRows(user_id) ==
    SelectSeq(SubSeq(txs, batch.txs_before + 1, Len(txs)),
              LAMBDA t : t.user_id = user_id)

BatchDelta == IF batch.operation = "add" THEN batch.amount ELSE -batch.amount

\* C24: in a points batch every visited user's outcome depends on that user
\* alone: an unknown user, or one whose balance the subtraction would take
\* below zero without allow_negative, is left as it was and gets no row;
\* every other user's balance has moved by the requested amount exactly
\* once, with one row; a finished batch has visited every user. The
\* example: add 100 to [alice, carol, bob], carol unknown and neither of the
\* others more than 100 in debt, gives total 3, success 2, failed 1, one
\* error for carol, alice and bob 100 richer.
BatchIsolation ==
    (batch.kind = "points" /\ batch.pc \in {"run", "done"}) =>
        /\ batch.pc = "done" => BatchVisited = Len(BatchSubjects)
        /\ \A k \in 1..BatchVisited :
              LET u == BatchSubjects[k] IN
              IF u \notin DOMAIN batch.points_before
              THEN BatchRows(u) = << >>
              ELSE IF ~batch.allow_negative
                      /\ batch.points_before[u] + BatchDelta < 0
              THEN /\ points[u] = batch.points_before[u]
                   /\ BatchRows(u) = << >>
              ELSE /\ points[u] = batch.points_before[u] + BatchDelta
                   /\ Len(BatchRows(u)) = 1
                   /\ BatchRows(u)[1].delta = BatchDelta
        /\ (/\ batch.pc = "done"
            /\ batch.operation = "add"
            /\ batch.amount = 100
            /\ batch.user_ids = <<"alice", "carol", "bob">>
            /\ \A u \in {"alice", "bob"} :
                  batch.allow_negative \/ batch.points_before[u] + 100 >= 0)
               => /\ batch.total_users = 3
                  /\ batch.success = 2
                  /\ batch.failed = 1
                  /\ Len(batch.errors) = 1
                  /\ batch.errors[1].user_id = "carol"
                  /\ points["alice"] = batch.points_before["alice"] + 100
                  /\ points["bob"] = batch.points_before["bob"] + 100

\* C24 case: a finished batch in which a user failed (unknown, or short of
\* points) and a user after it in the list was served.
BatchIsolationWitness ==
    /\ batch.kind = "points"
    /\ batch.pc = "done"
    /\ \E i, j \in 1..Len(BatchSubjects) :
          /\ i < j
          /\ \E e \in DOMAIN batch.errors :
                batch.errors[e].user_id = BatchSubjects[i]
          /\ Len(BatchRows(BatchSubjects[j])) = 1
    /\ \E e \in DOMAIN batch.errors :
          batch.errors[e].error = "Insufficient points"

\* C25: a batch request whose amount is not a positive integer, or whose
\* target is "specific" with no user ids, is answered with a validation
\* error, and the step that takes it changes no balance, no transaction
\* row, no XP row and no queue item.
BatchRejectedUntouched ==
    [][(/\ batch'.kind # ""
        /\ \/ batch'.amount <= 0
           \/ batch'.target = "specific" /\ batch'.user_ids = << >>)
          => /\ batch'.pc = "rejected"
             /\ ~batch'.ok
             /\ batch'.error # ""
             /\ batch'.success = 0
             /\ UNCHANGED <<points, txs, xp, levelup, queue_items>>]_vars

\* C25 case: both kinds of malformed request have been refused, the later
\* one after a batch had changed balances.
BatchRejectedUntouchedWitness ==
    /\ batch.pc = "rejected"
    /\ batch.amount > 0
    /\ batch.target = "specific"
    /\ batch.user_ids = << >>
    /\ Len(txs) > 2

\* C30: for an XP batch, success + failed accounts for every user visited
\* (for the total once finished); errors holds one entry for each user that
\* failed and none for a user that succeeded; level_ups holds one entry,
\* with the levels before and after, for exactly the users whose level the
\* batch changed.
BatchResultShape ==
    (batch.kind = "xp" /\ batch.pc \in {"run", "done"}) =>
        /\ batch.success + batch.failed = BatchVisited
        /\ batch.total_users = Len(BatchSubjects)
        /\ batch.pc = "done" => batch.total_users = batch.success + batch.failed
        /\ Len(batch.errors) = batch.failed
        /\ \A i, j \in DOMAIN batch.errors :
              batch.errors[i].user_id = batch.errors[j].user_id => i = j
        /\ \A i, j \in DOMAIN batch.level_ups :
              batch.level_ups[i].user_id = batch.level_ups[j].user_id => i = j
        /\ \A k \in 1..BatchVisited :
              LET u == BatchSubjects[k]
                  failed == u \notin DOMAIN batch.xp_before
              IN  /\ failed <=> \E e \in DOMAIN batch.errors :
                                    batch.errors[e].user_id = u
                  /\ (~failed /\ xp[u].level # batch.xp_before[u].level)
                        <=> \E l \in DOMAIN batch.level_ups :
                               /\ batch.level_ups[l].user_id = u
                               /\ batch.level_ups[l].level_before
                                     = batch.xp_before[u].level
                               /\ batch.level_ups[l].level_after = xp[u].level
        /\ \A e \in DOMAIN batch.errors :
              \E k \in 1..BatchVisited : BatchSubjects[k] = batch.errors[e].user_id
        /\ \A l \in DOMAIN batch.level_ups :
              \E k \in 1..BatchVisited :
                  BatchSubjects[k] = batch.level_ups[l].user_id

\* C30 case: a finished XP batch with a failed user, a user whose level
\* changed and a user whose level did not.
BatchResultShapeWitness ==
    /\ batch.kind = "xp"
    /\ batch.pc = "done"
    /\ batch.failed = 1
    /\ batch.success = 2
    /\ Len(batch.level_ups) = 1

\* C26: a redeem that fails (the redeem is switched off or has no row, the
\* user's cooldown is active, or the user is short of points) returns
\* ok=false with an error and changes nothing: the balances, the
\* transaction log and the queue are as before, and no cooldown is added
\* or moved (the lookup may only have dropped an entry already expired).
FailedRedeemNoEffect ==
    [][(/\ redeemed'.op = "redeem"
        /\ ~redeemed'.ok
        /\ redeemed'.at = now')
          => /\ redeemed'.error # ""
             /\ redeemed'.queue_id = 0
             /\ UNCHANGED <<points, txs, queue_items>>
             /\ \A e \in DOMAIN cooldowns' :
                   e \in DOMAIN cooldowns /\ cooldowns'[e] = cooldowns[e]
             /\ \A e \in DOMAIN cooldowns \ DOMAIN cooldowns' :
                   now >= cooldowns[e]]_vars

\* C26 case: a user who has spent down to less than the cost is refused
\* for insufficient points while a cooldown of theirs is still running.
FailedRedeemNoEffectWitness ==
    /\ redeemed.op = "redeem"
    /\ ~redeemed.ok
    /\ redeemed.at = now
    /\ redeemed.error = "Insufficient points"
    /\ points[redeemed.user_name] < POINTS_START_AMOUNT
    /\ \E e \in DOMAIN cooldowns : e[1] = redeemed.user_name /\ cooldowns[e] > now

\* C27: a step changes the cooldown of no (user, key) other than the one
\* the admission or redeem just made was for; and a user with no cooldown
\* entry for a key is never refused for cooldown, whoever else has just
\* redeemed that key.
CooldownPerSubjectKey ==
    [][/\ \A e \in DOMAIN cooldowns \cup DOMAIN cooldowns' :
             (/\ e # verdict'.entry
              /\ e # <<redeemed'.user_name, redeem_key(redeemed'.key)>>)
                => /\ e \in DOMAIN cooldowns
                   /\ e \in DOMAIN cooldowns'
                   /\ cooldowns'[e] = cooldowns[e]
       /\ (/\ redeemed'.op = "redeem"
           /\ redeemed'.at = now'
           /\ <<redeemed'.user_name, redeem_key(redeemed'.key)>>
                 \notin DOMAIN cooldowns)
             => redeemed'.error \in {"", "Insufficient points", "Redeem disabled"}]_vars

\* C27 case: a user has redeemed a key at the very instant another user's
\* cooldown for the same key was set, and that cooldown stands as set.
CooldownPerSubjectKeyWitness ==
    /\ redeemed.op = "redeem"
    /\ redeemed.ok
    /\ redeemed.at = now
    /\ \E u \in Subjects :
          /\ u # redeemed.user_name
          /\ <<u, redeem_key(redeemed.key)>> \in DOMAIN cooldowns
          /\ cooldowns[<<u, redeem_key(redeemed.key)>>]
                = now + REDEEMS[redeemed.key].cooldown_s * TicksPerSec
          /\ cooldowns[<<redeemed.user_name, redeem_key(redeemed.key)>>]
                = now + REDEEMS[redeemed.key].cooldown_s * TicksPerSec

\* C28: the number of pending tts items never exceeds TTS_QUEUE_MAX.
PendingTtsBounded ==
    pending_count(queue_items) <= TTS_QUEUE_MAX

\* The levels whose rule has had an effect: a grant or a tts item made by
\* apply_level_rewards, or a message sent to chat.
RewardBegun(L) ==
    \/ \E k \in DOMAIN levelup.reward_actions :
          /\ levelup.reward_actions[k].level = L
          /\ levelup.reward_actions[k].type \in {"points", "tts"}
    \/ \E k \in DOMAIN levelup.sent : levelup.sent[k].level = L

\* The levels whose rule still owes an effect: a message returned to the
\* caller and not sent yet.
RewardOutstanding(L) ==
    /\ \E k \in DOMAIN levelup.reward_actions :
          /\ levelup.reward_actions[k].level = L
          /\ levelup.reward_actions[k].type = "message"
    /\ \A k \in DOMAIN levelup.sent : levelup.sent[k].level # L

\* C29: in a level-up over several levels no effect of a later level's
\* rule has happened while an effect of an earlier level's rule is still
\* owed.
RewardEffectsInLevelOrder ==
    \A k1, k2 \in DOMAIN levelup.calls :
        k1 < k2 =>
            ~(RewardOutstanding(levelup.calls[k1]) /\ RewardBegun(levelup.calls[k2]))

\* C31: a tts item that was running when the process was shut down is
\* afterwards neither pending nor done, and its text is never returned to
\* the TTS engine: it stays running until the stuck-item reset sets it
\* failed.
InterruptedStaysRunning ==
    \A i \in DOMAIN queue_items :
        queue_items[i].interrupted =>
            /\ queue_items[i].status \in {"running", "failed"}
            /\ queue_items[i].spoken = 0

\* C32: in on_chat a cooldown entry is written only in a step that granted
\* the subject its chat points, and a step whose grant failed leaves the
\* subject without a cooldown for chat points.
CooldownOnlyAfterGrant ==
    [][/\ \A e \in DOMAIN cooldowns' :
            (e \notin DOMAIN cooldowns \/ cooldowns'[e] # cooldowns[e]) =>
                /\ result'.op = "grant" /\ result'.err = ""
                /\ result'.user_id = e[1] /\ e[2] = "points:chat"
                /\ Len(txs') \in {Len(txs) + 1, Len(txs) + 2}
                /\ txs'[Len(txs')] =
                       Transaction(e[1], "grant", POINTS_CHAT_AMOUNT, "chat")
       /\ (verdict'.op = "admit" /\ result'.err # "") =>
            /\ <<verdict'.entry[1], "points:chat">> \notin DOMAIN cooldowns'
            /\ \A k \in DOMAIN txs' :
                  txs'[k].reason = "chat" => (k \in DOMAIN txs /\ txs'[k] = txs[k])
      ]_vars

\* A grant has just failed for a subject that was not on cooldown, and the
\* subject has no cooldown entry.
CooldownOnlyAfterGrantWitness ==
    /\ verdict.op = "admit" /\ verdict.admitted
    /\ result.op = "grant" /\ result.err = "SQLAlchemyError"
    /\ verdict.entry \notin DOMAIN cooldowns

\* The spend rows of a user for the tts redeem.
TtsSpends(user) ==
    {k \in DOMAIN txs : /\ txs[k].user_id = user /\ txs[k].type = "spend"
                         /\ txs[k].reason = redeem_key("tts")
                         /\ txs[k].delta = -REDEEMS["tts"].cost}

\* The tts queue items made for a user's redeems.
TtsRedeemItems(user) ==
    {i \in DOMAIN queue_items : /\ queue_items[i].kind = "tts"
                                 /\ queue_items[i].payload.user = user}

\* C33: every deduction for a tts redeem has its queue item (as many spend
\* rows as items, per user), and a successful redeem returns the id of the
\* pending item it made.
SpendHasQueueItem ==
    /\ \A u \in Subjects : Cardinality(TtsSpends(u)) = Cardinality(TtsRedeemItems(u))
    /\ (redeemed.op = "redeem" /\ redeemed.key = "tts" /\ redeemed.ok) =>
          /\ redeemed.queue_id \in DOMAIN queue_items
          /\ queue_items[redeemed.queue_id].kind = "tts"
          /\ queue_items[redeemed.queue_id].status = "pending"
          /\ queue_items[redeemed.queue_id].payload.user = redeemed.user_name

\* C38: the reconnect backoff is 1 at the start and always between 1 and 30
\* seconds; it is reset to 1 by a successful connection, is doubled (up to
\* 30) after the sleep that follows a failed attempt, and changes at no
\* other step.
BackoffDoublesWithinBounds ==
    [][/\ joystick.backoff >= 1 /\ joystick.backoff <= 30
       /\ joystick'.backoff >= 1 /\ joystick'.backoff <= 30
       /\ joystick'.backoff =
             IF joystick.pc = "connecting" /\ joystick'.pc = "connected" THEN 1
             ELSE IF joystick.pc = "sleeping" /\ joystick'.pc = "connecting"
                  THEN IF joystick.backoff * 2 > 30 THEN 30
                       ELSE joystick.backoff * 2
             ELSE joystick.backoff
       /\ (joystick'.pc = "sleeping" /\ joystick.pc # "sleeping") =>
             joystick'.remaining = joystick.backoff
      ]_vars

\* Five attempts in a row have failed: the sixth sleep is running and the
\* backoff has reached its maximum.
BackoffDoublesWithinBoundsWitness ==
    /\ joystick.pc = "sleeping"
    /\ joystick.backoff = 30
    /\ joystick.remaining = 30

\* C34: every close of the socket clears the ping interval and sets one
\* reconnect timer of 5 seconds, a new socket is made exactly when that
\* timer is due, and a closed socket is always followed by a new connect
\* attempt, whether the closed one had opened or not.
ReconnectAfterEveryClose ==
    /\ [][(ext.ws # "CLOSED" /\ ext'.ws = "CLOSED") =>
             /\ ext'.pingInterval = 0
             /\ ext'.intervals = << >>
             /\ DOMAIN ext'.timeouts # {}
             /\ \A h \in DOMAIN ext'.timeouts : ext'.timeouts[h] = RECONNECT_DELAY]_vars
    /\ [][(ext.ws = "CLOSED" /\ ext'.ws # "CLOSED") =>
             /\ ext'.ws = "CONNECTING"
             /\ \E h \in DOMAIN ext.timeouts : ext.timeouts[h] = 0]_vars
    /\ [](ext.ws = "CLOSED" => <>(ext.ws = "CONNECTING"))

\* A socket that never opened has closed and its reconnect timer is due.
ReconnectAfterEveryCloseWitness ==
    /\ ext.ws = "CLOSED"
    /\ ext.last.op = "tick"
    /\ ext.live = 0
    /\ \E h \in DOMAIN ext.timeouts : ext.timeouts[h] = 0

\* C35: there is at most one socket that is not closed, at most one ping
\* interval and at most one reconnect timer, and a ping has been sent only
\* with ws OPEN.
OneSocketOneTimer ==
    /\ ext.live <= 1
    /\ ext.live = (IF ext.ws = "CLOSED" THEN 0 ELSE 1)
    /\ Cardinality(DOMAIN ext.intervals) <= 1
    /\ Cardinality(DOMAIN ext.timeouts) <= 1
    /\ (ext.last.op = "ping" /\ ext.last.pinged) => ext.ws = "OPEN"
    /\ DOMAIN ext.intervals # {} => ext.ws = "OPEN"
    /\ DOMAIN ext.timeouts # {} => ext.ws = "CLOSED"

\* A second socket is open after the first one closed, and it has just sent
\* a ping.
OneSocketOneTimerWitness ==
    /\ ext.ws = "OPEN"
    /\ ext.last.op = "ping" /\ ext.last.pinged
    /\ ext.pingInterval # 0

ClickOncePerMessage ==
    \A i \in DOMAIN page.msgs :
        LET msg == page.msgs[i] IN
        /\ msg.clicks <= 1
        /\ Len(msg.responses) <= 1
        /\ msg.clicks = 1 =>
              (msg.seen.found /\ msg.seen.visible /\ msg.seen.enabled)
        /\ msg.action # "click_tip" =>
              (msg.clicks = 0 /\ msg.responses = << >> /\ msg.timer = "none")
        /\ msg.action = "click_tip" =>
              /\ msg.timer \in {"set", "fired"}
              /\ msg.timer = "set" => (msg.clicks = 0 /\ msg.responses = << >>)
              /\ msg.timer = "fired" =>
                    /\ Len(msg.responses) = 1
                    /\ msg.responses[1].success = (msg.clicks = 1)
                    /\ msg.clicks = 1 <=>
                          (msg.seen.found /\ msg.seen.visible /\ msg.seen.enabled)

\* Two click_tip messages have been answered: one found the button disabled
\* and did not click, the other clicked.
ClickOncePerMessageWitness ==
    /\ Len(page.msgs) = 2
    /\ page.msgs[1].timer = "fired" /\ page.msgs[1].clicks = 0
    /\ page.msgs[1].seen.found /\ page.msgs[1].seen.visible
    /\ ~page.msgs[1].seen.enabled
    /\ page.msgs[2].timer = "fired" /\ page.msgs[2].clicks = 1

\* C39: the timestamps of every queue item agree with its status: an item
\* that is no longer pending has started_at set, and an item is done or
\* failed exactly when finished_at is set.
TimestampsAgreeWithStatus ==
    \A i \in DOMAIN queue_items :
        /\ queue_items[i].status # "pending" => queue_items[i].started_at # NULL
        /\ queue_items[i].status \in {"done", "failed"} <=>
              queue_items[i].finished_at # NULL

\* C40: over any sequence of next_plain() polls the pre-sound of a tts item
\* has been played once if the item was primed and never otherwise, its text
\* has been returned at most once and only together with it becoming done,
\* and a poll returns a text only for the item it has just set done.
CueOnceTextOnce ==
    /\ \A i \in DOMAIN queue_items :
          queue_items[i].kind = "tts" =>
             /\ queue_items[i].cues = (IF queue_items[i].primed_at # NULL THEN 1 ELSE 0)
             /\ queue_items[i].spoken <= 1
             /\ queue_items[i].spoken = 1 => queue_items[i].status = "done"
             /\ queue_items[i].status = "running" => queue_items[i].spoken = 0
    /\ (polled.op = "next_plain" /\ polled.ret # << >>) =>
          /\ polled.item \in DOMAIN queue_items
          /\ queue_items[polled.item].status = "done"
          /\ queue_items[polled.item].finished_at = polled.at

\* An item was primed and spoken, and a later poll has primed the next item
\* without returning a text.
CueOnceTextOnceWitness ==
    /\ polled.op = "next_plain" /\ polled.ret = << >> /\ polled.item = 2
    /\ 1 \in DOMAIN queue_items
    /\ queue_items[1].status = "done"
    /\ queue_items[1].cues = 1 /\ queue_items[1].spoken = 1
    /\ queue_items[2].status = "running" /\ queue_items[2].cues = 1

====
